---- MODULE Spec2Model ----
(***************************************************************************)
(* Model of the coordinate mapper of claude-tldraw: the page geometry      *)
(* resolver (getPageDimensions), the canvas <-> document conversions       *)
(* (tldrawToPdfCoords, pdfToTldrawCoords, findPageForY) and the two        *)
(* command-line scripts built on them (synctex-lookup.mjs and              *)
(* synctex-reverse.mjs), the feedback server (mcp-server/index.mjs) and    *)
(* the browser's document editor (SvgDocument.tsx).                        *)
(*                                                                         *)
(* JavaScript numbers are modelled as exact rationals n/d extended with    *)
(* +Infinity, -Infinity and NaN, with the IEEE rules for the special       *)
(* values.  Rounding of finite results and the sign of zero are not        *)
(* modelled: an equality below is an equality of exact values.             *)
(***************************************************************************)
EXTENDS Integers, Sequences, FiniteSets, TLC

\* ------------------------------------------------------------------ bounds

\* Highest page number probed on disk.
MaxFiles == 3

\* ----------------------------------------------------------- JS numbers

RECURSIVE Gcd(_, _)
Gcd(a, b) == IF b = 0 THEN a ELSE Gcd(b, a % b)

Abs(i) == IF i < 0 THEN -i ELSE i

NaN == [k |-> "nan", n |-> 0, d |-> 1]
PInf == [k |-> "pinf", n |-> 0, d |-> 1]
NInf == [k |-> "ninf", n |-> 0, d |-> 1]

\* The finite number n/d (d # 0), in lowest terms with a positive denominator.
Rat(n, d) ==
  LET g == Gcd(Abs(n), Abs(d))
      s == IF d < 0 THEN -1 ELSE 1
  IN [k |-> "fin", n |-> (s * n) \div g, d |-> (s * d) \div g]

Num(i) == Rat(i, 1)

IsNaN(a) == a.k = "nan"
IsFinite(a) == a.k = "fin"

\* -1, 0 or 1; not used on NaN.
Sign(a) ==
  CASE a.k = "pinf" -> 1
    [] a.k = "ninf" -> -1
    [] OTHER -> IF a.n > 0 THEN 1 ELSE IF a.n < 0 THEN -1 ELSE 0

SignedInf(s) == IF s < 0 THEN NInf ELSE PInf

Neg(a) ==
  CASE a.k = "nan" -> NaN
    [] a.k = "pinf" -> NInf
    [] a.k = "ninf" -> PInf
    [] OTHER -> Rat(-a.n, a.d)

\* a + b
Add(a, b) ==
  IF IsNaN(a) \/ IsNaN(b) THEN NaN
  ELSE IF ~IsFinite(a) /\ ~IsFinite(b) THEN (IF a = b THEN a ELSE NaN)
  ELSE IF ~IsFinite(a) THEN a
  ELSE IF ~IsFinite(b) THEN b
  ELSE Rat(a.n * b.d + b.n * a.d, a.d * b.d)

\* a - b
Sub(a, b) == Add(a, Neg(b))

\* a * b
Mul(a, b) ==
  IF IsNaN(a) \/ IsNaN(b) THEN NaN
  ELSE IF ~IsFinite(a) \/ ~IsFinite(b)
    THEN (IF Sign(a) * Sign(b) = 0 THEN NaN ELSE SignedInf(Sign(a) * Sign(b)))
  ELSE Rat(a.n * b.n, a.d * b.d)

\* a / b
Div(a, b) ==
  IF IsNaN(a) \/ IsNaN(b) THEN NaN
  ELSE IF ~IsFinite(a) /\ ~IsFinite(b) THEN NaN
  ELSE IF ~IsFinite(a) THEN SignedInf(IF Sign(b) = 0 THEN Sign(a) ELSE Sign(a) * Sign(b))
  ELSE IF ~IsFinite(b) THEN Num(0)
  ELSE IF b.n = 0 THEN (IF a.n = 0 THEN NaN ELSE SignedInf(Sign(a)))
  ELSE Rat(a.n * b.d, a.d * b.n)

\* a < b
Lt(a, b) ==
  /\ ~IsNaN(a)
  /\ ~IsNaN(b)
  /\ a # b
  /\ \/ a.k = "ninf"
     \/ b.k = "pinf"
     \/ IsFinite(a) /\ IsFinite(b) /\ a.n * b.d < b.n * a.d

\* a >= b
Ge(a, b) == ~IsNaN(a) /\ ~IsNaN(b) /\ ~Lt(a, b)

\* a === b
NumEq(a, b) == ~IsNaN(a) /\ ~IsNaN(b) /\ a = b

\* the truthiness of a number: `a || fallback` takes a unless a is 0 or NaN
Truthy(a) == ~IsNaN(a) /\ ~(IsFinite(a) /\ a.n = 0)

OrElse(a, fallback) == IF Truthy(a) THEN a ELSE fallback

\* ------------------------------------------------------- text and parsing
\* A text is a sequence of one-character strings; <<>> is the empty text and
\* also stands for an attribute that is absent.

Digits == {"0", "1", "2", "3", "4", "5", "6", "7", "8", "9"}

DigitVal(c) ==
  CASE c = "0" -> 0 [] c = "1" -> 1 [] c = "2" -> 2 [] c = "3" -> 3
    [] c = "4" -> 4 [] c = "5" -> 5 [] c = "6" -> 6 [] c = "7" -> 7
    [] c = "8" -> 8 [] c = "9" -> 9

\* Length of the longest prefix of s[i..] whose characters are all in cs.
RECURSIVE RunLen(_, _, _)
RunLen(s, i, cs) ==
  IF i > Len(s) \/ s[i] \notin cs THEN 0 ELSE 1 + RunLen(s, i + 1, cs)

RECURSIVE Pow10(_)
Pow10(e) == IF e = 0 THEN 1 ELSE 10 * Pow10(e - 1)

\* Value of the digit text s[i..i+len-1], most significant first.
RECURSIVE DigitsVal(_, _, _)
DigitsVal(s, i, len) ==
  IF len = 0 THEN 0
  ELSE DigitVal(s[i + len - 1]) + 10 * DigitsVal(s, i, len - 1)

\* parseFloat: leading blanks, an optional sign, digits, an optional fraction;
\* stops at the first character that cannot continue the number; NaN when
\* there is no digit.  (Exponents and the Infinity literal do not occur in the
\* texts of this model.)
FloatValue(s, neg, i0, il, fl) ==
  IF il + fl = 0 THEN NaN
  ELSE Rat((IF neg THEN -1 ELSE 1)
             * (DigitsVal(s, i0, il) * Pow10(fl) + DigitsVal(s, i0 + il + 1, fl)),
           Pow10(fl))

FloatDigits(s, neg, i0, il) ==
  FloatValue(s, neg, i0, il,
             IF i0 + il <= Len(s) /\ s[i0 + il] = "."
               THEN RunLen(s, i0 + il + 1, Digits) ELSE 0)

FloatSigned(s, ws, sg) ==
  FloatDigits(s, sg = 1 /\ s[ws + 1] = "-", ws + sg + 1, RunLen(s, ws + sg + 1, Digits))

FloatAfterBlanks(s, ws) ==
  FloatSigned(s, ws, IF ws + 1 <= Len(s) /\ s[ws + 1] \in {"-", "+"} THEN 1 ELSE 0)

parseFloat(s) == FloatAfterBlanks(s, RunLen(s, 1, {" "}))

\* parseInt: leading blanks, an optional sign, digits; NaN when there is no
\* digit.
parseInt(s) ==
  LET ws == RunLen(s, 1, {" "})
      sg == IF ws + 1 <= Len(s) /\ s[ws + 1] \in {"-", "+"} THEN 1 ELSE 0
      neg == sg = 1 /\ s[ws + 1] = "-"
      i0 == ws + sg + 1
      il == RunLen(s, i0, Digits)
      v == DigitsVal(s, i0, il)
  IN IF il = 0 THEN NaN ELSE Num(IF neg THEN -v ELSE v)

\* String.prototype.split(/\s+/): the pieces between maximal runs of blanks;
\* a leading or trailing run leaves an empty piece at that end.
RECURSIVE SplitFrom(_, _, _, _)
SplitFrom(s, i, cur, acc) ==
  IF i > Len(s) THEN Append(acc, cur)
  ELSE IF s[i] = " "
    THEN SplitFrom(s, i + RunLen(s, i, {" "}), <<>>, Append(acc, cur))
  ELSE SplitFrom(s, i + 1, Append(cur, s[i]), acc)

SplitWs(s) == SplitFrom(s, 1, <<>>, <<>>)

\* The capture of /width=['"]([0-9.]+)/ (and of the height pattern) on an
\* attribute value: its longest prefix of digits and dots; <<>> is no match.
NumericPrefix(s) == SubSeq(s, 1, RunLen(s, 1, Digits \cup {"."}))

\* ------------------------------------------------------------ page files
\* A page file is the markup of its <svg> element as far as the scripts read
\* it: the values of the viewBox, width and height attributes.

Missing == [missing |-> TRUE]

Svg(vb, w, h) == [viewBox |-> vb, width |-> w, height |-> h]

\* viewBox='0 0 600 800'
Svg600x800 ==
  Svg(<<"0", " ", "0", " ", "6", "0", "0", " ", "8", "0", "0">>, <<>>, <<>>)
\* viewBox='0 0 600 1000'
Svg600x1000 ==
  Svg(<<"0", " ", "0", " ", "6", "0", "0", " ", "1", "0", "0", "0">>, <<>>, <<>>)
\* width='400' height='800'
Svg400x800 == Svg(<<>>, <<"4", "0", "0">>, <<"8", "0", "0">>)
\* viewBox='-72 -72 400 200' width='400pt' height='200pt'
SvgOffset ==
  Svg(<<"-", "7", "2", " ", "-", "7", "2", " ", "4", "0", "0", " ", "2", "0", "0">>,
      <<"4", "0", "0", "p", "t">>, <<"2", "0", "0", "p", "t">>)
\* no geometry at all
SvgBare == Svg(<<>>, <<>>, <<>>)
\* width='0' height='800'
SvgZeroWidth == Svg(<<>>, <<"0">>, <<"8", "0", "0">>)
\* viewBox='0 0 -800 600'
SvgNegative ==
  Svg(<<"0", " ", "0", " ", "-", "8", "0", "0", " ", "6", "0", "0">>, <<>>, <<>>)
\* width='.' height='800'
SvgDot == Svg(<<>>, <<".">>, <<"8", "0", "0">>)
\* viewBox='0 0 600' height='0'
SvgFlat == Svg(<<"0", " ", "0", " ", "6", "0", "0">>, <<>>, <<"0">>)

SampleFiles ==
  {Svg600x800, Svg600x1000, Svg400x800, SvgOffset, SvgBare,
   SvgZeroWidth, SvgNegative, SvgDot, SvgFlat}

\* --------------------------------------------------------------- constants

TARGET_WIDTH == 800
PAGE_SPACING == 32

\* A variable that holds null or an array.
Null == [v |-> "null"]
Array(items) == [v |-> "array", items |-> items]

Undefined == [undefined |-> TRUE]

\* ------------------------------------------------------- getPageDimensions

\* fs.existsSync of page-NN.svg
existsSync(files, pageNum) == pageNum \in DOMAIN files /\ files[pageNum] # Missing

\* The lowest page number with no page file.
LowestMissing(files) ==
  CHOOSE n \in 1..(Len(files) + 1) :
    /\ ~existsSync(files, n)
    /\ \A m \in 1..(n - 1) : existsSync(files, m)

\* The geometry one loop iteration reads from a page file:
\* viewBox first, then the width and height attributes.
PageMetadata(svg) ==
  LET parts == SplitWs(svg.viewBox)
      box == svg.viewBox # <<>> /\ Len(parts) = 4
      widthMatch == NumericPrefix(svg.width)
      heightMatch == NumericPrefix(svg.height)
      boxWidth == IF box THEN OrElse(parseFloat(parts[3]), Num(600)) ELSE Num(600)
      boxHeight == IF box THEN OrElse(parseFloat(parts[4]), Num(800)) ELSE Num(800)
  IN [viewBoxMinX |-> IF box THEN OrElse(parseFloat(parts[1]), Num(0)) ELSE Num(0),
      viewBoxMinY |-> IF box THEN OrElse(parseFloat(parts[2]), Num(0)) ELSE Num(0),
      origWidth |-> IF widthMatch # <<>> THEN parseFloat(widthMatch) ELSE boxWidth,
      origHeight |-> IF heightMatch # <<>> THEN parseFloat(heightMatch) ELSE boxHeight]

\* One page record, placed at `top`.
PageRecord(svg, pageNum, top) ==
  LET m == PageMetadata(svg)
      scale == Div(Num(TARGET_WIDTH), m.origWidth)
      scaledWidth == Mul(m.origWidth, scale)
      scaledHeight == Mul(m.origHeight, scale)
  IN [pageNum |-> pageNum,
      origWidth |-> m.origWidth,
      origHeight |-> m.origHeight,
      viewBoxMinX |-> m.viewBoxMinX,
      viewBoxMinY |-> m.viewBoxMinY,
      scaledWidth |-> scaledWidth,
      scaledHeight |-> scaledHeight,
      scale |-> scale,
      top |-> top,
      bottom |-> Add(top, scaledHeight)]

\* ScanPages with the running total advanced by the scaled height alone.
RECURSIVE ScanPagesNoSpacing(_, _, _, _)
ScanPagesNoSpacing(files, pageNum, top, pages) ==
  IF ~existsSync(files, pageNum) THEN pages
  ELSE LET page == PageRecord(files[pageNum], pageNum, top)
       IN ScanPagesNoSpacing(files, pageNum + 1, Add(top, page.scaledHeight),
                             Append(pages, page))

\* ScanPages that steps over a missing page file instead of stopping at it.
RECURSIVE ScanPagesPastGap(_, _, _, _)
ScanPagesPastGap(files, pageNum, top, pages) ==
  IF pageNum \notin DOMAIN files THEN pages
  ELSE IF ~existsSync(files, pageNum)
    THEN ScanPagesPastGap(files, pageNum + 1, top, pages)
  ELSE LET page == PageRecord(files[pageNum], pageNum, top)
       IN ScanPagesPastGap(files, pageNum + 1,
                           Add(top, Add(page.scaledHeight, Num(PAGE_SPACING))),
                           Append(pages, page))

\* The while loop: probe page pageNum, stop at the first missing file.
RECURSIVE ScanPages(_, _, _, _)
ScanPages(files, pageNum, top, pages) ==
  IF ~existsSync(files, pageNum) THEN pages
  ELSE LET page == PageRecord(files[pageNum], pageNum, top)
       IN ScanPages(files, pageNum + 1,
                    Add(top, Add(page.scaledHeight, Num(PAGE_SPACING))),
                    Append(pages, page))

\* getPageDimensions that scans the page files on every call.
getPageDimensionsNoCache(cache, files) == ScanPages(files, 1, Num(0), <<>>)

\* getPageDimensions: the cached list when there is one (an empty list is a
\* truthy value too), the scan of the page files otherwise.
getPageDimensions(cache, files) ==
  IF cache # Null THEN cache.items ELSE ScanPages(files, 1, Num(0), <<>>)

\* ---------------------------------------------------------- conversions

\* findPageForY: the first page whose band holds y, else the last page
\* (pages[-1] of an empty list is undefined).
RECURSIVE FindFrom(_, _, _)
FindFrom(pages, i, y) ==
  IF i > Len(pages)
    THEN (IF Len(pages) = 0 THEN Undefined ELSE pages[Len(pages)])
  ELSE IF Ge(y, pages[i].top) /\ Lt(y, pages[i].bottom) THEN pages[i]
  ELSE FindFrom(pages, i + 1, y)

\* findPageForY with the top edge excluded from the band (y > page.top).
RECURSIVE FindFromAboveTop(_, _, _)
FindFromAboveTop(pages, i, y) ==
  IF i > Len(pages)
    THEN (IF Len(pages) = 0 THEN Undefined ELSE pages[Len(pages)])
  ELSE IF Lt(pages[i].top, y) /\ Lt(y, pages[i].bottom) THEN pages[i]
  ELSE FindFromAboveTop(pages, i + 1, y)

findPageForYAboveTop(pages, y) == FindFromAboveTop(pages, 1, y)

findPageForY(pages, y) == FindFrom(pages, 1, y)

\* tldrawToPdfCoords with the viewBox offset left out.
tldrawToPdfCoordsNoOffset(pages, tlX, tlY) ==
  LET page == findPageForY(pages, tlY)
      localX == tlX
      localY == Sub(tlY, page.top)
  IN IF page = Undefined THEN [err |-> "TypeError"]
     ELSE [err |-> "none",
           page |-> page.pageNum,
           pdfX |-> Div(localX, page.scale),
           pdfY |-> Div(localY, page.scale),
           localX |-> localX,
           localY |-> localY,
           origWidth |-> page.origWidth,
           origHeight |-> page.origHeight]

\* tldrawToPdfCoords: canvas (tlX, tlY) to page and native coordinates;
\* reading page.top of undefined is a TypeError.
tldrawToPdfCoords(pages, tlX, tlY) ==
  LET page == findPageForY(pages, tlY)
      localX == tlX
      localY == Sub(tlY, page.top)
  IN IF page = Undefined THEN [err |-> "TypeError"]
     ELSE [err |-> "none",
           page |-> page.pageNum,
           pdfX |-> Add(Div(localX, page.scale), page.viewBoxMinX),
           pdfY |-> Add(Div(localY, page.scale), page.viewBoxMinY),
           localX |-> localX,
           localY |-> localY,
           origWidth |-> page.origWidth,
           origHeight |-> page.origHeight]

\* pages[pageNum - 1] for a number pageNum: undefined unless pageNum is an
\* integer in 1..pages.length.
PageAt(pages, pageNum) ==
  IF IsFinite(pageNum) /\ pageNum.d = 1 /\ pageNum.n >= 1 /\ pageNum.n <= Len(pages)
    THEN pages[pageNum.n]
  ELSE Undefined

\* pdfToTldrawCoords: page and native coordinates to canvas coordinates;
\* throws Error(`Page ${pageNum} not found`) for a page that is not in the list.
pdfToTldrawCoords(pages, pageNum, pdfX, pdfY) ==
  LET page == PageAt(pages, pageNum)
      localX == Mul(Sub(pdfX, page.viewBoxMinX), page.scale)
      localY == Mul(Sub(pdfY, page.viewBoxMinY), page.scale)
  IN IF page = Undefined
       THEN [err |-> "Error", message |-> <<"Page", pageNum, "not found">>]
     ELSE [err |-> "none",
           tldrawX |-> localX,
           tldrawY |-> Add(page.top, localY),
           page |-> pageNum]

\* ------------------------------------------- SvgDocument.tsx: the browser
\* loadSvgDocument lays the same page files out on the canvas. It reads the
\* attributes of the svg element: the whole width and height values go to
\* parseFloat, and a value that is not a number is ignored.

pageSpacing == 32

\* Math.max(a, b)
Max(a, b) == IF IsNaN(a) \/ IsNaN(b) THEN NaN ELSE IF Lt(a, b) THEN b ELSE a

\* The page files the browser is given: the pages that exist, in order.
SvgTexts(files) == SubSeq(files, 1, LowestMissing(files) - 1)

\* width and height of one page before scaling
BrowserSize(svg) ==
  LET parts == SplitWs(svg.viewBox)
      box == svg.viewBox # <<>> /\ Len(parts) = 4
      boxWidth == IF box THEN OrElse(parseFloat(parts[3]), Num(600)) ELSE Num(600)
      boxHeight == IF box THEN OrElse(parseFloat(parts[4]), Num(800)) ELSE Num(800)
      w == parseFloat(svg.width)
      h == parseFloat(svg.height)
  IN [width |-> IF svg.width # <<>> /\ ~IsNaN(w) THEN w ELSE boxWidth,
      height |-> IF svg.height # <<>> /\ ~IsNaN(h) THEN h ELSE boxHeight]

\* One page of the document, placed at `top`.
BrowserPage(svg, top) ==
  LET size == BrowserSize(svg)
      scale == Div(Num(800), size.width)
      width == Mul(size.width, scale)
      height == Mul(size.height, scale)
  IN [bounds |-> [x |-> Num(0), y |-> top, w |-> width, h |-> height],
      width |-> width,
      height |-> height]

\* The loop over svgTexts.
RECURSIVE LoadPages(_, _, _, _, _)
LoadPages(svgTexts, i, top, widest, pages) ==
  IF i > Len(svgTexts) THEN [pages |-> pages, widest |-> widest]
  ELSE LET page == BrowserPage(svgTexts[i], top)
       IN LoadPages(svgTexts, i + 1,
                    Add(top, Add(page.height, Num(pageSpacing))),
                    Max(widest, page.width), Append(pages, page))

\* loadSvgDocument: the pages, centred on the widest one.
loadSvgDocument(svgTexts) ==
  LET loaded == LoadPages(svgTexts, 1, Num(0), Num(0), <<>>)
  IN [p \in DOMAIN loaded.pages |->
        [loaded.pages[p] EXCEPT
           !.bounds.x = Div(Sub(loaded.widest, loaded.pages[p].bounds.w), Num(2))]]

\* ------------------------------------ SvgDocument.tsx: the editor's shapes
\* The editor's store is modelled by what the calls made on it say: a shape
\* record has a type, the isLocked flag and an index, the shapes of the page
\* are ordered by index, a new shape is given the index above the highest,
\* an update runs the registered before-change handler on the record and the
\* after-change handler once it is stored.  A shape id is a pair <<kind, n>>.

\* How many pages the document has.
NumPages == 2

\* How many shapes the user draws.
MaxUserShapes == 1

\* The highest index the user gives a shape.
MaxIndex == 2

\* shapeIdSet: the ids of the page image shapes
shapeIdSet == {<<"page", n>> : n \in 1..NumPages}

UserShapeIds == {<<"user", n>> : n \in 1..MaxUserShapes}

\* The ids of `ids` ordered by the index of their shapes, lowest first.
RECURSIVE sortByIndex(_, _)
sortByIndex(store, ids) ==
  IF ids = {} THEN <<>>
  ELSE LET lowest == CHOOSE id \in ids : \A other \in ids : store[id].index <= store[other].index
       IN <<lowest>> \o sortByIndex(store, ids \ {lowest})

\* editor.getSortedChildIdsForParent(pageId)
getSortedChildIdsForParent(store) == sortByIndex(store, DOMAIN store)

\* The index a new shape is given: above every shape of the page.
IndexAbove(store) ==
  IF DOMAIN store = {} THEN 1
  ELSE 1 + store[getSortedChildIdsForParent(store)[Cardinality(DOMAIN store)]].index

\* The before-change handler that hands every record through.
beforeChangeUnguarded(id, prev, next) == next

\* registerBeforeChangeHandler('shape', (prev, next) => ...): the record stored
beforeChange(id, prev, next) ==
  IF id \notin shapeIdSet THEN next
  ELSE IF next.isLocked THEN next
  ELSE [prev EXCEPT !.isLocked = TRUE]

\* Where s occurs in the sequence of ids (0: nowhere).
Position(seq, s) == IF \E i \in DOMAIN seq : seq[i] = s
                      THEN CHOOSE i \in DOMAIN seq : seq[i] = s
                    ELSE 0

\* The siblings that are not page shapes.
RECURSIVE OtherSiblings(_)
OtherSiblings(siblings) ==
  IF siblings = <<>> THEN <<>>
  ELSE (IF Head(siblings) \in shapeIdSet THEN <<>> ELSE <<Head(siblings)>>)
         \o OtherSiblings(Tail(siblings))

\* makeSureShapesAreAtBottom that never moves a shape.
makeSureShapesAreAtBottomNoUpdate(store) == store

\* makeSureShapesAreAtBottom: the store it leaves.  getIndicesBetween(undefined,
\* lowestIndex, n) gives n increasing indices below lowestIndex.
makeSureShapesAreAtBottom(store) ==
  LET pages == sortByIndex(store, shapeIdSet \cap DOMAIN store)
      siblings == getSortedChildIdsForParent(store)
      otherSiblings == OtherSiblings(siblings)
  IN IF Len(pages) = 0 THEN store
     ELSE IF SubSeq(siblings, 1, Len(pages)) = pages THEN store
     ELSE IF Len(otherSiblings) = 0 THEN store
     ELSE [id \in DOMAIN store |->
             IF Position(pages, id) = 0 THEN store[id]
             ELSE beforeChange(id, store[id],
                               [store[id] EXCEPT
                                  !.isLocked = TRUE,
                                  !.index = store[otherSiblings[1]].index
                                              - Len(pages) + Position(pages, id) - 1])]

\* The after-create and after-change handlers: makeSureShapesAreAtBottom,
\* run again for the records its own update changes.
AfterChange(store) == makeSureShapesAreAtBottom(makeSureShapesAreAtBottom(store))

\* editor.createShape: the new record is stored with the index above the
\* others, then the after-create handler runs.
createShape(store, id, type) ==
  AfterChange([s \in DOMAIN store \cup {id} |->
                 IF s = id
                   THEN [type |-> type, isLocked |-> FALSE, index |-> IndexAbove(store)]
                 ELSE store[s]])

\* deleteShape that leaves a locked shape in the store.
deleteShapeUnlessLocked(store, id) ==
  IF store[id].isLocked THEN store ELSE [s \in DOMAIN store \ {id} |-> store[s]]

\* editor.deleteShape
deleteShape(store, id) == [s \in DOMAIN store \ {id} |-> store[s]]

\* An update of shape id to the record next: what the before-change handler
\* returns is stored, and the after-change handler runs when the record changed.
updateShape(store, id, next) ==
  IF beforeChange(id, store[id], next) = store[id] THEN store
  ELSE AfterChange([store EXCEPT ![id] = beforeChange(id, store[id], next)])

\* setupSvgEditor on a new store: the page shapes are created locked, in the
\* order of the pages, and makeSureShapesAreAtBottom() is called.
setupSvgEditor ==
  makeSureShapesAreAtBottom([id \in shapeIdSet |->
                               [type |-> "image", isLocked |-> TRUE, index |-> id[2]]])

\* --------------------------------------------- the reverse script's pages
\* synctex-reverse.mjs carries its own copy of getPageDimensions; its page
\* records have no scaledWidth and scaledHeight fields.

ReverseScaledHeight(svg) ==
  LET m == PageMetadata(svg)
  IN Mul(m.origHeight, Div(Num(TARGET_WIDTH), m.origWidth))

ReversePageRecord(svg, pageNum, top) ==
  LET m == PageMetadata(svg)
  IN [pageNum |-> pageNum,
      origWidth |-> m.origWidth,
      origHeight |-> m.origHeight,
      viewBoxMinX |-> m.viewBoxMinX,
      viewBoxMinY |-> m.viewBoxMinY,
      scale |-> Div(Num(TARGET_WIDTH), m.origWidth),
      top |-> top,
      bottom |-> Add(top, ReverseScaledHeight(svg))]

RECURSIVE ScanPagesReverse(_, _, _, _)
ScanPagesReverse(files, pageNum, top, pages) ==
  IF ~existsSync(files, pageNum) THEN pages
  ELSE ScanPagesReverse(
         files, pageNum + 1,
         Add(top, Add(ReverseScaledHeight(files[pageNum]), Num(PAGE_SPACING))),
         Append(pages, ReversePageRecord(files[pageNum], pageNum, top)))

getPageDimensionsReverse(cache, files) ==
  IF cache # Null THEN cache.items ELSE ScanPagesReverse(files, 1, Num(0), <<>>)

\* ------------------------------------------------------------ the oracle
\* The synctex command line tool is an external process.  A run of it is its
\* exit status and what it wrote to stdout, a sequence of lines.

UpperCase ==
  <<"A", "B", "C", "D", "E", "F", "G", "H", "I", "J", "K", "L", "M",
    "N", "O", "P", "Q", "R", "S", "T", "U", "V", "W", "X", "Y", "Z">>
LowerCase ==
  <<"a", "b", "c", "d", "e", "f", "g", "h", "i", "j", "k", "l", "m",
    "n", "o", "p", "q", "r", "s", "t", "u", "v", "w", "x", "y", "z">>

\* \w
WordChars == {UpperCase[i] : i \in 1..26} \cup {LowerCase[i] : i \in 1..26}
               \cup Digits \cup {"_"}

toLowerCase(s) ==
  [i \in DOMAIN s |->
     IF \E j \in 1..26 : UpperCase[j] = s[i]
       THEN LowerCase[CHOOSE j \in 1..26 : UpperCase[j] = s[i]]
     ELSE s[i]]

\* line.match(/^(\w+):(.+)$/)
LineMatches(line) ==
  LET k == RunLen(line, 1, WordChars)
  IN k >= 1 /\ Len(line) >= k + 2 /\ line[k + 1] = ":"

LineKey(line) == toLowerCase(SubSeq(line, 1, RunLen(line, 1, WordChars)))
LineValue(line) == SubSeq(line, RunLen(line, 1, WordChars) + 2, Len(line))

\* The object built from the matching lines: the keys found, each with the
\* value of its last line; the keys in `numeric` are converted, by parseFloat
\* when `float` and by parseInt otherwise.
ParseLines(output, numeric, float) ==
  LET hits == {i \in DOMAIN output : LineMatches(output[i])}
      keys == {LineKey(output[i]) : i \in hits}
      last(key) == CHOOSE i \in hits :
                     /\ LineKey(output[i]) = key
                     /\ \A j \in hits : LineKey(output[j]) = key => j <= i
  IN [key \in keys |->
        IF key \in numeric
        THEN IF float THEN parseFloat(LineValue(output[last(key)]))
             ELSE parseInt(LineValue(output[last(key)]))
        ELSE LineValue(output[last(key)])]

\* the object has the property `key`
Has(object, key) == key \in DOMAIN object

\* The truthiness of object.key: a text is truthy when it is not empty, a
\* number when it is neither 0 nor NaN, a missing property (undefined) never.
TruthyText(object, key) == Has(object, key) /\ object[key] # <<>>
TruthyNumber(object, key) == Has(object, key) /\ Truthy(object[key])

KeyInput == <<"i", "n", "p", "u", "t">>
KeyLine == <<"l", "i", "n", "e">>
KeyPage == <<"p", "a", "g", "e">>
KeyX == <<"x">>
KeyY == <<"y">>
KeyError == <<"e", "r", "r", "o", "r">>

\* parseSynctexOutput of synctex-lookup.mjs: line and column are integers
parseSynctexOutput(output) ==
  ParseLines(output, {KeyLine, <<"c", "o", "l", "u", "m", "n">>}, FALSE)

\* parseSynctexOutput of synctex-reverse.mjs: the coordinates are numbers
parseSynctexOutputReverse(output) ==
  ParseLines(output,
             {KeyPage, KeyX, KeyY, <<"h">>, <<"v">>, <<"w">>,
              <<"h", "e", "i", "g", "h", "t">>},
             TRUE)

\* What execSync can produce: [status, stdout]; a non-zero status or a command
\* that cannot be run throws, the error carrying the stdout collected so far.
Run(status, stdout) == [status |-> status, stdout |-> stdout]

ResultBegin ==
  <<"S", "y", "n", "c", "T", "e", "X", " ", "r", "e", "s", "u", "l", "t", " ", "b", "e", "g", "i", "n">>
ResultEnd ==
  <<"S", "y", "n", "c", "T", "e", "X", " ", "r", "e", "s", "u", "l", "t", " ", "e", "n", "d">>
InputLine ==
  <<"I", "n", "p", "u", "t", ":", "/", "d", "o", "c", "/", "m", "a", "i", "n", ".", "t", "e", "x">>
CommandFailed ==
  <<"C", "o", "m", "m", "a", "n", "d", " ", "f", "a", "i", "l", "e", "d">>

Banner == <<ResultBegin, ResultEnd>>

\* `synctex edit`: a mapping; no mapping; a command that cannot be run; a
\* failed run that wrote the banner only
EditRuns ==
  {Run("ok", <<ResultBegin, InputLine, <<"L", "i", "n", "e", ":", "4", "2">>, <<"C", "o", "l", "u", "m", "n", ":", "-", "1">>, <<"C", "o", "n", "t", "e", "x", "t", ":">>,
               ResultEnd>>),
   Run("ok", Banner),
   Run("failed", <<>>),
   Run("failed", Banner)}

ViewRun(status, page) ==
  Run(status, <<ResultBegin, page, <<"x", ":", "9", "0">>, <<"y", ":", "1", "0", "0", ".", "5">>, ResultEnd>>)

\* `synctex view`: coordinates on pages 1, 2, 0 and 9; a failed run that
\* wrote coordinates; x without y; no mapping; a command that cannot be run
ViewRuns ==
  {ViewRun("ok", <<"P", "a", "g", "e", ":", "1">>),
   ViewRun("ok", <<"P", "a", "g", "e", ":", "2">>),
   ViewRun("ok", <<"P", "a", "g", "e", ":", "0">>),
   ViewRun("ok", <<"P", "a", "g", "e", ":", "9">>),
   ViewRun("failed", <<"P", "a", "g", "e", ":", "1">>),
   Run("ok", <<<<"P", "a", "g", "e", ":", "1">>, <<"x", ":", "9", "0">>>>),
   Run("ok", Banner),
   Run("failed", <<>>)}

\* synctexLookup: the parsed output of the run, also of a failed run that
\* wrote something; {error: message} for a failed run that wrote nothing.
synctexLookup(run) ==
  IF run.status = "ok" THEN parseSynctexOutput(run.stdout)
  ELSE IF run.stdout # <<>> THEN parseSynctexOutput(run.stdout)
  ELSE [key \in {KeyError} |-> CommandFailed]

\* synctexView: as synctexLookup, but a failed run that wrote nothing is
\* rethrown.
synctexView(run) ==
  IF run.status = "ok" THEN [threw |-> FALSE, value |-> parseSynctexOutputReverse(run.stdout)]
  ELSE IF run.stdout # <<>>
    THEN [threw |-> FALSE, value |-> parseSynctexOutputReverse(run.stdout)]
  ELSE [threw |-> TRUE, value |-> CommandFailed]

\* readAnnotationsFromSnapshot: the shapes of the snapshot that are not page
\* images; none when there is no snapshot file.
RECURSIVE SelectAnnotations(_, _)
SelectAnnotations(store, i) ==
  IF i > Len(store) THEN <<>>
  ELSE IF store[i].typeName = "shape" /\ store[i].type # "image"
    THEN <<[type |-> store[i].type, x |-> store[i].x, y |-> store[i].y]>>
           \o SelectAnnotations(store, i + 1)
  ELSE SelectAnnotations(store, i + 1)

readAnnotationsFromSnapshot(snapshot) ==
  IF snapshot = Missing THEN <<>> ELSE SelectAnnotations(snapshot.store, 1)

Shape(typeName, type, x, y) ==
  [typeName |-> typeName, type |-> type, x |-> Num(x), y |-> Num(y)]

SampleSnapshots ==
  {Missing,
   [store |-> <<>>],
   [store |-> <<Shape("shape", "image", 0, 0), Shape("shape", "draw", 120, 10)>>],
   [store |-> <<Shape("shape", "draw", 120, 10), Shape("shape", "geo", 120, 1070)>>]}

\* ------------------------------------------------------------------ state

VARIABLES
  disk,          \* page number -> page file or Missing: public/docs/page-NN.svg
  mPages,        \* mapper: the resolved page list, Null before it is resolved
  mCall,         \* mapper: the last conversion applied, with inputs and results
  pageCache,     \* synctex-lookup.mjs: the module's page cache
  lk,            \* synctex-lookup.mjs: the invocation (main's position and locals)
  revPageCache,  \* synctex-reverse.mjs: the module's page cache
  rv,            \* synctex-reverse.mjs: the invocation
  now,               \* mcp-server: the value Date.now() returns, in ms
  ticks,             \* mcp-server: how many times the clock has advanced
  events,            \* mcp-server: how many requests and callbacks have run
  lastSnapshotTime,  \* mcp-server: module variable
  waitingResolvers,  \* mcp-server: module variable, the calls whose resolve is queued
  lastRenderOutput,  \* mcp-server: module variable
  lastCheckedTime,   \* mcp-server: module variable
  posts,             \* mcp-server: the POST /snapshot requests, in order of arrival
  calls,             \* mcp-server: the tool calls, in order of arrival
  hl,                \* mcp-server: the highlight_location call and what it broadcast
  shapes,            \* browser: the editor's shape records, by shape id
  timers,            \* browser: the pending setTimeout callbacks of the markers
  clock,             \* browser: the time, in seconds
  messages,          \* browser: the WebSocket messages handled, in order
  change             \* browser: what the before-change handler did with the last change

mapperVars == <<mPages, mCall>>
scriptVars == <<pageCache, lk, revPageCache, rv>>
serverVars == <<now, ticks, events, lastSnapshotTime, waitingResolvers,
                lastRenderOutput, lastCheckedTime, posts, calls>>
vars == <<disk, mPages, mCall, pageCache, lk, revPageCache, rv, now, ticks, events,
          lastSnapshotTime, waitingResolvers, lastRenderOutput, lastCheckedTime,
          posts, calls, hl, shapes, timers, clock, messages, change>>
editorVars == <<shapes, timers, clock, messages, change>>

Range(seq) == {seq[i] : i \in DOMAIN seq}

Disks == [1..MaxFiles -> SampleFiles \cup {Missing}]

\* The page files the script runs are checked on.
ScriptDisks == [1..MaxFiles -> {Svg600x800, SvgOffset, Missing}]

NoCall == [op |-> "none"]

\* A script that is not running: nothing printed, no exit status yet (-1).
IdleLookup ==
  [pc |-> "idle", args |-> <<>>, x |-> Undefined, y |-> Undefined,
   coords |-> Undefined, result |-> Undefined, anns |-> <<>>, i |-> 0,
   stdout |-> <<>>, stderr |-> <<>>, exit |-> -1, calls |-> <<>>]

IdleReverse ==
  [pc |-> "idle", args |-> <<>>, result |-> Undefined,
   stdout |-> <<>>, stderr |-> <<>>, exit |-> -1, calls |-> <<>>]

InitScripts ==
  /\ pageCache = Null
  /\ lk = IdleLookup
  /\ revPageCache = Null
  /\ rv = IdleReverse

InitCalls ==
  /\ mPages = Null
  /\ mCall = NoCall

\* No highlight_location call has arrived: nothing returned, nothing broadcast.
IdleHighlight ==
  [pc |-> "idle", file |-> <<>>, line |-> 0, text |-> "", isError |-> FALSE,
   sent |-> <<>>]

\* Date.now() when the server starts: any positive number of milliseconds.
StartTime == 1000

\* The MCP server after its module has been evaluated.
InitServer ==
  /\ now = StartTime
  /\ ticks = 0
  /\ events = 0
  /\ lastSnapshotTime = 0
  /\ waitingResolvers = <<>>
  /\ lastRenderOutput = <<>>
  /\ lastCheckedTime = 0
  /\ posts = <<>>
  /\ calls = <<>>
  /\ hl = IdleHighlight

\* The browser once the editor is mounted and setupSvgEditor has run.
InitEditor ==
  /\ shapes = setupSvgEditor
  /\ timers = {}
  /\ clock = 0
  /\ messages = <<>>
  /\ change = "none"

Init ==
  /\ disk \in ScriptDisks
  /\ InitCalls
  /\ InitScripts
  /\ InitServer
  /\ InitEditor

InitMapper ==
  /\ disk \in Disks
  /\ InitCalls
  /\ InitScripts
  /\ InitServer
  /\ InitEditor

\* ------------------------------------------------- the mapper's operations
\* The conversions are pure functions of the page list; a run resolves the
\* list and applies one of them once, to inputs drawn from the values around
\* the page bands.

\* Canvas y values: on, just inside and just outside every band edge.
YAround(page) ==
  (IF IsFinite(page.top) THEN {page.top, Add(page.top, Num(1))} ELSE {})
    \cup (IF IsFinite(page.bottom)
            THEN {page.bottom, Add(page.bottom, Num(16))} ELSE {})

YInputs(pages) == {Num(-5), Num(500)} \cup UNION {YAround(p) : p \in Range(pages)}

XInput == Num(120)

PageInputs == 0..(MaxFiles + 1)

\* Native points of page pn: the origin offset, a point inside, the bottom
\* edge and a point above the page.
NativeInputs(pages, pn) ==
  LET known == pn \in DOMAIN pages
      minX == IF known /\ IsFinite(pages[pn].viewBoxMinX)
                THEN pages[pn].viewBoxMinX ELSE Num(0)
      minY == IF known /\ IsFinite(pages[pn].viewBoxMinY)
                THEN pages[pn].viewBoxMinY ELSE Num(0)
      h == IF known /\ IsFinite(pages[pn].origHeight)
             THEN pages[pn].origHeight ELSE Num(800)
  IN {<<minX, minY>>,
      <<Add(minX, Num(90)), Add(minY, Num(100))>>,
      <<Add(minX, Num(90)), Add(minY, h)>>,
      <<Add(minX, Num(90)), Sub(minY, Num(10))>>}

\* getPageDimensions()
MGetPageDimensions ==
  /\ mPages = Null
  /\ mPages' = Array(getPageDimensions(mPages, disk))
  /\ UNCHANGED <<disk, hl, editorVars, serverVars, mCall, scriptVars>>

\* findPageForY(pages, y)
MFindPageForY ==
  /\ mPages # Null
  /\ mCall = NoCall
  /\ \E y \in YInputs(mPages.items) :
       mCall' = [op |-> "findPageForY", y |-> y, out |-> findPageForY(mPages.items, y)]
  /\ UNCHANGED <<disk, hl, editorVars, serverVars, mPages, scriptVars>>

\* tldrawToPdfCoords(pages, x, y), then pdfToTldrawCoords on its result
MCanvasRoundTrip ==
  /\ mPages # Null
  /\ mCall = NoCall
  /\ \E y \in YInputs(mPages.items) :
       LET coords == tldrawToPdfCoords(mPages.items, XInput, y)
       IN mCall' = [op |-> "canvasRoundTrip", x |-> XInput, y |-> y,
                    coords |-> coords,
                    back |-> IF coords.err # "none" THEN coords
                             ELSE pdfToTldrawCoords(mPages.items, Num(coords.page),
                                                    coords.pdfX, coords.pdfY)]
  /\ UNCHANGED <<disk, hl, editorVars, serverVars, mPages, scriptVars>>

\* pdfToTldrawCoords(pages, page, x, y), then tldrawToPdfCoords on its result
MDocumentRoundTrip ==
  /\ mPages # Null
  /\ mCall = NoCall
  /\ \E pn \in PageInputs : \E pt \in NativeInputs(mPages.items, pn) :
       LET tldraw == pdfToTldrawCoords(mPages.items, Num(pn), pt[1], pt[2])
       IN mCall' = [op |-> "documentRoundTrip", page |-> pn,
                    pdfX |-> pt[1], pdfY |-> pt[2],
                    tldraw |-> tldraw,
                    back |-> IF tldraw.err # "none" THEN tldraw
                             ELSE tldrawToPdfCoords(mPages.items, tldraw.tldrawX,
                                                    tldraw.tldrawY)]
  /\ UNCHANGED <<disk, hl, editorVars, serverVars, mPages, scriptVars>>

\* loadSvgDocument(name, svgUrls) in the browser, on the same page files
MLoadSvgDocument ==
  /\ mPages # Null
  /\ mCall = NoCall
  /\ mCall' = [op |-> "loadSvgDocument", pages |-> loadSvgDocument(SvgTexts(disk))]
  /\ UNCHANGED <<disk, hl, editorVars, serverVars, mPages, scriptVars>>

MapperNext ==
  \/ MGetPageDimensions
  \/ MFindPageForY
  \/ MCanvasRoundTrip
  \/ MDocumentRoundTrip
  \/ MLoadSvgDocument

SpecMapper == InitMapper /\ [][MapperNext]_vars

\* ------------------------------------------------- one process, many calls
\* The page files are written by the build, which may run while a process
\* holds its cached page list; within the process getPageDimensions can be
\* called any number of times, between and after the other operations.

\* the build rewrites or removes one page file
MRewritePageFile ==
  /\ \E n \in 1..MaxFiles, svg \in {Svg600x800, SvgOffset, Missing} :
       /\ disk[n] # svg
       /\ disk' = [disk EXCEPT ![n] = svg]
  /\ UNCHANGED <<hl, editorVars, serverVars, mapperVars, scriptVars>>

\* getPageDimensions(), the first call of the process or a later one; a later
\* call records the list it returns
MCallGetPageDimensions ==
  /\ mPages' = Array(getPageDimensions(mPages, disk))
  /\ mCall' = IF mPages = Null THEN mCall
              ELSE [op |-> "getPageDimensions", pages |-> mPages'.items]
  /\ UNCHANGED <<disk, hl, editorVars, serverVars, scriptVars>>

\* synctexLookup(page, x, y)
MSynctexLookup ==
  /\ mPages # Null
  /\ mCall = NoCall
  /\ \E run \in EditRuns :
       mCall' = [op |-> "synctexLookup", result |-> synctexLookup(run)]
  /\ UNCHANGED <<disk, hl, editorVars, serverVars, mPages, scriptVars>>

CacheNext ==
  \/ MCallGetPageDimensions
  \/ MRewritePageFile
  \/ MFindPageForY
  \/ MCanvasRoundTrip
  \/ MDocumentRoundTrip
  \/ MSynctexLookup

SpecCache == Init /\ [][CacheNext]_vars

\* ------------------------------------------------------ synctex-lookup.mjs
\* One invocation of a script is one process: the model follows one
\* invocation at a time, and a new one starts with fresh module state.

NoRun == lk.pc \in {"idle", "exited"} /\ rv.pc \in {"idle", "exited"}

FromSnapshotFlag ==
  <<"-", "-", "f", "r", "o", "m", "-", "s", "n", "a", "p", "s", "h", "o", "t">>
PageFlag == <<"-", "-", "p", "a", "g", "e">>

\* process.argv.slice(2)
LookupArgs ==
  {<<>>,
   <<FromSnapshotFlag>>,
   <<<<"1", "2", "0">>, <<"1", "0">>>>,
   <<<<"1", "2", "0">>, <<"1", "0", "7", "0">>>>,
   <<<<"1", "2", "0">>, <<"a", "b", "c">>>>}
    \cup {<<PageFlag, n, <<"1", "2", "0">>, y>> :
            n \in {<<"0">>, <<"1">>, <<"2">>, <<"9">>}, y \in {<<"1", "0">>, <<"1", "0", "7", "0">>}}

\* args[i] === text (i counted from 1 here; undefined past the end)
ArgIs(args, i, text) == i <= Len(args) /\ args[i] = text

\* parseFloat(args[i]) and parseInt(args[i]); NaN for undefined
ArgFloat(args, i) == IF i <= Len(args) THEN parseFloat(args[i]) ELSE NaN
ArgInt(args, i) == IF i <= Len(args) THEN parseInt(args[i]) ELSE NaN

\* process.exit(1) after writing `lines` to stderr
LookupExit1(lines) ==
  [lk EXCEPT !.pc = "exited", !.exit = 1, !.stderr = lk.stderr \o lines]

\* main().catch: the rejection is printed and the process exits with 1
LookupCrash(e) == LookupExit1(<<e>>)

TypeErrorTop == <<"TypeError", "Cannot read properties of undefined (reading 'top')">>

\* main, up to the prerequisite checks
LookupStart ==
  /\ NoRun
  /\ \E args \in LookupArgs, pdfExists \in BOOLEAN, synctexExists \in BOOLEAN :
       LET fresh == [IdleLookup EXCEPT !.args = args]
       IN lk' = IF ~pdfExists
                  THEN [fresh EXCEPT !.pc = "exited", !.exit = 1,
                                     !.stderr = <<<<"PDF not found">>, <<"Run: pdflatex">>>>]
                ELSE IF ~synctexExists
                  THEN [fresh EXCEPT !.pc = "exited", !.exit = 1,
                                     !.stderr = <<<<"Synctex not found">>, <<"Run: pdflatex">>>>]
                ELSE [fresh EXCEPT !.pc = "getPages"]
  /\ pageCache' = Null
  /\ revPageCache' = Null
  /\ rv' = IdleReverse
  /\ UNCHANGED <<disk, hl, editorVars, serverVars, mapperVars>>

\* const pages = await getPageDimensions()
LookupGetPages ==
  /\ lk.pc = "getPages"
  /\ pageCache' = Array(getPageDimensions(pageCache, disk))
  /\ lk' = [lk EXCEPT
              !.pc = IF ArgIs(lk.args, 1, FromSnapshotFlag)
                       THEN "readSnapshot" ELSE "single",
              !.stdout = Append(lk.stdout,
                                <<"Loaded", Len(pageCache'.items), "page dimensions">>)]
  /\ UNCHANGED <<disk, hl, editorVars, serverVars, mapperVars, revPageCache, rv>>

\* the single coordinate branch, up to the usage check
LookupSingle ==
  /\ lk.pc = "single"
  /\ LET paged == ArgIs(lk.args, 1, PageFlag)
         page == PageAt(pageCache.items, ArgInt(lk.args, 2))
         x == IF paged THEN ArgFloat(lk.args, 3) ELSE ArgFloat(lk.args, 1)
         y == IF paged THEN Add(page.top, ArgFloat(lk.args, 4))
              ELSE ArgFloat(lk.args, 2)
     IN lk' = IF paged /\ page = Undefined THEN LookupCrash(TypeErrorTop)
              ELSE IF IsNaN(x) \/ IsNaN(y)
                THEN LookupExit1(<<<<"Usage: node synctex-lookup.mjs <x> <y>">>,
                                   <<"       node synctex-lookup.mjs --from-snapshot">>>>)
              ELSE [lk EXCEPT !.pc = "convert", !.x = x, !.y = y]
  /\ UNCHANGED <<disk, hl, editorVars, serverVars, mapperVars, pageCache, revPageCache, rv>>

\* const coords = tldrawToPdfCoords(pages, x, y), and the two lines printed
LookupConvert ==
  /\ lk.pc = "convert"
  /\ LET coords == tldrawToPdfCoords(pageCache.items, lk.x, lk.y)
     IN lk' = IF coords.err # "none" THEN LookupCrash(TypeErrorTop)
              ELSE [lk EXCEPT
                      !.pc = "oracle",
                      !.coords = coords,
                      !.stdout = lk.stdout
                                   \o <<<<"TLDraw coords:", lk.x, lk.y>>,
                                        <<"Page", coords.page, "PDF coords:",
                                          coords.pdfX, coords.pdfY>>>>]
  /\ UNCHANGED <<disk, hl, editorVars, serverVars, mapperVars, pageCache, revPageCache, rv>>

\* LookupOracle that runs the oracle a second time after a run that failed.
LookupOracleRetry ==
  /\ lk.pc = "oracle"
  /\ \E run \in EditRuns, again \in EditRuns :
       LET call(r) == [page |-> lk.coords.page, pdfX |-> lk.coords.pdfX,
                       pdfY |-> lk.coords.pdfY, run |-> r]
           failed == run.status # "ok"
       IN lk' = [lk EXCEPT
                   !.pc = "report",
                   !.result = synctexLookup(IF failed THEN again ELSE run),
                   !.calls = IF failed THEN lk.calls \o <<call(run), call(again)>>
                             ELSE Append(lk.calls, call(run))]
  /\ UNCHANGED <<disk, hl, editorVars, serverVars, mapperVars, pageCache, revPageCache, rv>>

\* const result = synctexLookup(coords.page, coords.pdfX, coords.pdfY)
LookupOracle ==
  /\ lk.pc = "oracle"
  /\ \E run \in EditRuns :
       lk' = [lk EXCEPT
                !.pc = "report",
                !.result = synctexLookup(run),
                !.calls = Append(lk.calls,
                                 [page |-> lk.coords.page, pdfX |-> lk.coords.pdfX,
                                  pdfY |-> lk.coords.pdfY, run |-> run])]
  /\ UNCHANGED <<disk, hl, editorVars, serverVars, mapperVars, pageCache, revPageCache, rv>>

\* result.input && result.line
HasSource(result) == TruthyText(result, KeyInput) /\ TruthyNumber(result, KeyLine)

\* LookupReport that prints the JSON line before the source lines.
LookupReportJsonFirst ==
  /\ lk.pc = "report"
  /\ lk' = [lk EXCEPT
              !.pc = "exited",
              !.exit = 0,
              !.stdout =
                 lk.stdout \o
                 (IF HasSource(lk.result)
                    THEN <<<<"">>,
                           <<"JSON:", [file |-> lk.result[KeyInput],
                                       line |-> lk.result[KeyLine],
                                       page |-> lk.coords.page,
                                       tldraw |-> [x |-> lk.x, y |-> lk.y],
                                       pdf |-> [x |-> lk.coords.pdfX,
                                                y |-> lk.coords.pdfY]]>>,
                           <<"Source:", lk.result[KeyInput], lk.result[KeyLine]>>,
                           <<"texsync://file", lk.result[KeyInput], lk.result[KeyLine]>>>>
                  ELSE <<<<"">>, <<"No source location found">>>>)]
  /\ UNCHANGED <<disk, hl, editorVars, serverVars, mapperVars, pageCache, revPageCache, rv>>

\* the lines printed for the result; main returns and the process exits with 0
LookupReport ==
  /\ lk.pc = "report"
  /\ lk' = [lk EXCEPT
              !.pc = "exited",
              !.exit = 0,
              !.stdout =
                 lk.stdout \o
                 (IF HasSource(lk.result)
                    THEN <<<<"">>,
                           <<"Source:", lk.result[KeyInput], lk.result[KeyLine]>>,
                           <<"texsync://file", lk.result[KeyInput], lk.result[KeyLine]>>,
                           <<"">>,
                           <<"JSON:", [file |-> lk.result[KeyInput],
                                       line |-> lk.result[KeyLine],
                                       page |-> lk.coords.page,
                                       tldraw |-> [x |-> lk.x, y |-> lk.y],
                                       pdf |-> [x |-> lk.coords.pdfX,
                                                y |-> lk.coords.pdfY]]>>>>
                  ELSE <<<<"">>, <<"No source location found">>>>)]
  /\ UNCHANGED <<disk, hl, editorVars, serverVars, mapperVars, pageCache, revPageCache, rv>>

\* --from-snapshot: readAnnotationsFromSnapshot and the count printed; with
\* no annotation the loop is skipped and main returns
LookupReadSnapshot ==
  /\ lk.pc = "readSnapshot"
  /\ \E snapshot \in SampleSnapshots :
       LET annotations == readAnnotationsFromSnapshot(snapshot)
       IN lk' = [lk EXCEPT
                   !.pc = IF Len(annotations) = 0 THEN "exited" ELSE "annotations",
                   !.exit = IF Len(annotations) = 0 THEN 0 ELSE -1,
                   !.anns = annotations,
                   !.i = 1,
                   !.stderr = IF snapshot = Missing
                                THEN Append(lk.stderr, <<"No snapshot found at">>)
                              ELSE lk.stderr,
                   !.stdout = lk.stdout
                                \o <<<<"Found", Len(annotations), "annotations">>, <<"">>>>]
  /\ UNCHANGED <<disk, hl, editorVars, serverVars, mapperVars, pageCache, revPageCache, rv>>

\* one pass of the loop over the annotations: conversion, oracle, report
LookupAnnotation ==
  /\ lk.pc = "annotations"
  /\ \E run \in EditRuns :
       LET ann == lk.anns[lk.i]
           coords == tldrawToPdfCoords(pageCache.items, ann.x, ann.y)
           result == synctexLookup(run)
           last == lk.i = Len(lk.anns)
       IN lk' = IF coords.err # "none" THEN LookupCrash(TypeErrorTop)
                ELSE [lk EXCEPT
                        !.pc = IF last THEN "exited" ELSE "annotations",
                        !.exit = IF last THEN 0 ELSE -1,
                        !.i = lk.i + 1,
                        !.coords = coords,
                        !.result = result,
                        !.calls = Append(lk.calls,
                                         [page |-> coords.page, pdfX |-> coords.pdfX,
                                          pdfY |-> coords.pdfY, run |-> run]),
                        !.stdout =
                           lk.stdout
                             \o <<<<ann.type, "at TLDraw", ann.x, ann.y>>,
                                  <<"Page", coords.page, "PDF coords",
                                    coords.pdfX, coords.pdfY>>>>
                             \o (IF HasSource(result)
                                   THEN <<<<"Source:", result[KeyInput], result[KeyLine]>>,
                                          <<"texsync://file", result[KeyInput],
                                            result[KeyLine]>>>>
                                 ELSE <<<<"No source found">>>>)
                             \o <<<<"">>>>]
  /\ UNCHANGED <<disk, hl, editorVars, serverVars, mapperVars, pageCache, revPageCache, rv>>

\* ----------------------------------------------------- synctex-reverse.mjs

ReverseArgs == {<<<<"m", "a", "i", "n", ".", "t", "e", "x">>>>, <<<<"m", "a", "i", "n", ".", "t", "e", "x">>, <<"4", "2">>>>}

ReverseExit1(lines) ==
  [rv EXCEPT !.pc = "exited", !.exit = 1, !.stderr = rv.stderr \o lines]

ReverseCrash(e) == ReverseExit1(<<e>>)

\* main, up to the check that the TeX file exists
ReverseStart ==
  /\ NoRun
  /\ \E args \in ReverseArgs, fileExists \in BOOLEAN :
       LET fresh == [IdleReverse EXCEPT !.args = args]
       IN rv' = IF Len(args) < 2
                  THEN [fresh EXCEPT
                          !.pc = "exited", !.exit = 1,
                          !.stderr = <<<<"Usage: node synctex-reverse.mjs <file.tex> <line>">>>>]
                ELSE IF ~fileExists
                  THEN [fresh EXCEPT !.pc = "exited", !.exit = 1,
                                     !.stderr = <<<<"File not found:", args[1]>>>>]
                ELSE [fresh EXCEPT !.pc = "oracle"]
  /\ revPageCache' = Null
  /\ pageCache' = Null
  /\ lk' = IdleLookup
  /\ UNCHANGED <<disk, hl, editorVars, serverVars, mapperVars>>

\* const synctexResult = synctexView(texFile, line), the check of its page
\* and x, and the two lines printed (y.toFixed of a missing y is a TypeError)
ReverseOracle ==
  /\ rv.pc = "oracle"
  /\ \E run \in ViewRuns :
       LET view == synctexView(run)
           result == view.value
           called == [rv EXCEPT
                        !.calls = Append(rv.calls,
                                         [line |-> parseInt(rv.args[2]), run |-> run])]
       IN rv' = IF view.threw
                  THEN [called EXCEPT !.pc = "exited", !.exit = 1,
                                      !.stderr = Append(rv.stderr, <<"Error", result>>)]
                ELSE IF ~TruthyNumber(result, KeyPage) \/ ~Has(result, KeyX)
                  THEN [called EXCEPT
                          !.pc = "exited", !.exit = 1, !.result = result,
                          !.stderr = rv.stderr
                                       \o <<<<"Synctex returned no coordinates">>,
                                            <<"Raw output:", result>>>>]
                ELSE IF ~Has(result, KeyY)
                  THEN [called EXCEPT
                          !.pc = "exited", !.exit = 1, !.result = result,
                          !.stdout = Append(rv.stdout, <<"TeX:", rv.args[1], rv.args[2]>>),
                          !.stderr = Append(rv.stderr,
                                            <<"TypeError",
                                              "Cannot read properties of undefined (reading 'toFixed')">>)]
                ELSE [called EXCEPT
                        !.pc = "getPages", !.result = result,
                        !.stdout = rv.stdout
                                     \o <<<<"TeX:", rv.args[1], rv.args[2]>>,
                                          <<"PDF: page", result[KeyPage],
                                            result[KeyX], result[KeyY]>>>>]
  /\ UNCHANGED <<disk, hl, editorVars, serverVars, mapperVars, pageCache, lk, revPageCache>>

\* const pages = await getPageDimensions()
ReverseGetPages ==
  /\ rv.pc = "getPages"
  /\ revPageCache' = Array(getPageDimensionsReverse(revPageCache, disk))
  /\ rv' = [rv EXCEPT !.pc = "convert"]
  /\ UNCHANGED <<disk, hl, editorVars, serverVars, mapperVars, pageCache, lk>>

\* const tldraw = pdfToTldrawCoords(...), and the lines printed
ReverseConvert ==
  /\ rv.pc = "convert"
  /\ LET tldraw == pdfToTldrawCoords(revPageCache.items, rv.result[KeyPage],
                                     rv.result[KeyX], rv.result[KeyY])
     IN rv' = IF tldraw.err # "none" THEN ReverseCrash(<<"Error", tldraw.message>>)
              ELSE [rv EXCEPT
                      !.pc = "exited",
                      !.exit = 0,
                      !.stdout =
                         rv.stdout
                           \o <<<<"TLDraw:", tldraw.tldrawX, tldraw.tldrawY>>,
                                <<"JSON:", [page |-> tldraw.page,
                                            tldrawX |-> tldraw.tldrawX,
                                            tldrawY |-> tldraw.tldrawY,
                                            pdfX |-> rv.result[KeyX],
                                            pdfY |-> rv.result[KeyY]]>>>>]
  /\ UNCHANGED <<disk, hl, editorVars, serverVars, mapperVars, pageCache, lk, revPageCache>>

Next ==
  \/ LookupStart
  \/ LookupGetPages
  \/ LookupSingle
  \/ LookupConvert
  \/ LookupOracle
  \/ LookupReport
  \/ LookupReadSnapshot
  \/ LookupAnnotation
  \/ ReverseStart
  \/ ReverseOracle
  \/ ReverseGetPages
  \/ ReverseConvert

Spec == Init /\ [][Next]_vars

\* ------------------------------------------------- mcp-server/index.mjs
\* The server is one Node process: every request handler and callback runs
\* to its next await without interleaving. Date.now() has millisecond
\* resolution, so any number of handlers can see the same value. The
\* snapshot and the render output are both written to /tmp: a handler that
\* could store the snapshot can also write the render output.

MaxPosts == 2
MaxCalls == 2
MaxTicks == 1

\* time passes between two handlers: a second, five minutes
TickSizes == {1000, 300000}

Tick ==
  /\ ticks < MaxTicks
  /\ \E d \in TickSizes : now' = now + d
  /\ ticks' = ticks + 1
  /\ UNCHANGED <<disk, hl, editorVars, mapperVars, scriptVars, events, lastSnapshotTime,
                 waitingResolvers, lastRenderOutput, lastCheckedTime, posts, calls>>

\* lastRenderOutput after the viewer of post i has exited: its output, or
\* `Render error: ${e.message}` with the message of what was thrown, the
\* viewer's exit code or the failed write of the output file
RenderOutput(i, ok, written) ==
  IF ~ok THEN <<"Render error", "Viewer exited with code 1", i>>
  ELSE IF ~written THEN <<"Render error", "write failed", i>>
  ELSE <<"viewer output", i>>

\* A call whose resolve is run: a pending wait_for_feedback returns the
\* render output; for a call that has timed out resolve has no effect.
Resolve(call, output, post) ==
  IF call.state = "pending"
    THEN [call EXCEPT !.state = "returned", !.text = "New feedback received!",
                      !.output = output, !.isError = FALSE,
                      !.wokenBy = post,
                      !.resolves = call.resolves + 1]
  ELSE [call EXCEPT !.resolves = call.resolves + 1]

\* How many times call c is queued in the list of resolvers.
RECURSIVE Queued(_, _)
Queued(resolvers, c) ==
  IF resolvers = <<>> THEN 0
  ELSE (IF resolvers[1] = c THEN 1 ELSE 0) + Queued(Tail(resolvers), c)

\* PostSnapshot that runs the waiting resolvers as soon as the snapshot is
\* stored, before the render.
PostSnapshotNotifyEarly ==
  /\ Len(posts) < MaxPosts
  /\ \E stored \in BOOLEAN :
       /\ posts' = Append(posts, [at |-> events + 1,
                                  time |-> now,
                                  stored |-> stored,
                                  phase |-> IF stored THEN "rendering" ELSE "responded",
                                  status |-> IF stored THEN 0 ELSE 500,
                                  doneAt |-> 0])
       /\ lastSnapshotTime' = IF stored THEN now ELSE lastSnapshotTime
       /\ waitingResolvers' = IF stored THEN <<>> ELSE waitingResolvers
       /\ calls' = [c \in DOMAIN calls |->
                      IF stored /\ Queued(waitingResolvers, c) > 0
                        THEN Resolve(calls[c], lastRenderOutput, Len(posts) + 1)
                      ELSE calls[c]]
  /\ events' = events + 1
  /\ UNCHANGED <<disk, hl, editorVars, mapperVars, scriptVars, now, ticks, lastRenderOutput,
                 lastCheckedTime>>

\* POST /snapshot, from the end of the request body to `await renderSnapshot()`;
\* a failed write of the snapshot file is answered with 500
PostSnapshot ==
  /\ Len(posts) < MaxPosts
  /\ \E stored \in BOOLEAN :
       /\ posts' = Append(posts, [at |-> events + 1,
                                  time |-> now,
                                  stored |-> stored,
                                  phase |-> IF stored THEN "rendering" ELSE "responded",
                                  status |-> IF stored THEN 0 ELSE 500,
                                  doneAt |-> 0])
       /\ lastSnapshotTime' = IF stored THEN now ELSE lastSnapshotTime
  /\ events' = events + 1
  /\ UNCHANGED <<disk, hl, editorVars, mapperVars, scriptVars, now, ticks, waitingResolvers,
                 lastRenderOutput, lastCheckedTime, calls>>

\* waitingResolvers after the notification
Notify(resolvers) == <<>>

\* The inner try of POST /snapshot: the viewer's output is kept when the
\* viewer exited with 0 and the output file was written; otherwise the catch
\* block replaces it with the error text.
Rendered(ok, written) == ok /\ written

\* The request is answered with 200 unless the write in the catch block
\* throws in its turn, which the outer catch answers with 500.
Answered(ok, written, rewritten) ==
  IF Rendered(ok, written) \/ rewritten THEN 200 ELSE 500

\* POST /snapshot, after `await renderSnapshot()`: the render output is kept
\* (the error text when the viewer failed or the output file could not be
\* written); when nothing was thrown out of the inner catch block the waiting
\* resolvers are run, the list is emptied and the request is answered with
\* 200; otherwise the request is answered with 500 and no resolver is run
RenderSnapshotDone ==
  /\ \E i \in DOMAIN posts, ok \in BOOLEAN, written \in BOOLEAN, rewritten \in BOOLEAN :
       /\ posts[i].phase = "rendering"
       /\ lastRenderOutput' = RenderOutput(i, ok, written)
       /\ waitingResolvers' = IF Answered(ok, written, rewritten) = 200
                                 THEN Notify(waitingResolvers)
                               ELSE waitingResolvers
       /\ calls' = [c \in DOMAIN calls |->
                      IF Answered(ok, written, rewritten) = 200
                         /\ Queued(waitingResolvers, c) > 0
                        THEN Resolve(calls[c], RenderOutput(i, ok, written), i)
                      ELSE calls[c]]
       /\ posts' = [posts EXCEPT ![i].phase = "responded",
                                 ![i].status = Answered(ok, written, rewritten),
                                 ![i].doneAt = events + 1]
  /\ events' = events + 1
  /\ UNCHANGED <<disk, hl, editorVars, mapperVars, scriptVars, now, ticks, lastSnapshotTime,
                 lastCheckedTime>>

\* args.timeout of a wait_for_feedback call: absent, 0 or 1
TimeoutArgs == {[given |-> FALSE, v |-> 0], [given |-> TRUE, v |-> 0], [given |-> TRUE, v |-> 1]}

\* (args?.timeout || 300) * 1000
Timeout(arg) == (IF arg.given /\ arg.v # 0 THEN arg.v ELSE 300) * 1000

\* A tool call that has just arrived.
NewCall(name) ==
  [name |-> name, at |-> events + 1, time |-> now,
   arg |-> [given |-> FALSE, v |-> 0], timeout |-> 0,
   state |-> "returned", text |-> "", output |-> <<>>, isError |-> FALSE,
   wokenBy |-> 0, resolves |-> 0]

\* wait_for_feedback, up to `await Promise.race(...)`
wait_for_feedback ==
  /\ Len(calls) < MaxCalls
  /\ \E arg \in TimeoutArgs :
       calls' = Append(calls, [NewCall("wait_for_feedback") EXCEPT
                                 !.arg = arg, !.timeout = Timeout(arg),
                                 !.state = "pending"])
  /\ waitingResolvers' = Append(waitingResolvers, Len(calls) + 1)
  /\ events' = events + 1
  /\ UNCHANGED <<disk, hl, editorVars, mapperVars, scriptVars, now, ticks, lastSnapshotTime,
                 lastRenderOutput, lastCheckedTime, posts>>

\* the timer of a wait_for_feedback call fires: the race is lost and the
\* call returns the error; its resolver stays in waitingResolvers
WaitTimeout ==
  /\ \E c \in DOMAIN calls :
       /\ calls[c].name = "wait_for_feedback"
       /\ calls[c].state = "pending"
       /\ now >= calls[c].time + calls[c].timeout
       /\ calls' = [calls EXCEPT ![c].state = "returned",
                                 ![c].text = "Error: Timeout waiting for feedback",
                                 ![c].isError = TRUE]
  /\ events' = events + 1
  /\ UNCHANGED <<disk, hl, editorVars, mapperVars, scriptVars, now, ticks, lastSnapshotTime,
                 waitingResolvers, lastRenderOutput, lastCheckedTime, posts>>

\* check_feedback
check_feedback ==
  /\ Len(calls) < MaxCalls
  /\ LET new == lastSnapshotTime > lastCheckedTime
     IN /\ lastCheckedTime' = IF new THEN now ELSE lastCheckedTime
        /\ calls' = Append(calls,
                           IF new
                             THEN [NewCall("check_feedback") EXCEPT
                                     !.text = "New feedback available!",
                                     !.output = lastRenderOutput]
                           ELSE [NewCall("check_feedback") EXCEPT
                                   !.text = "No new feedback since last check."])
  /\ events' = events + 1
  /\ UNCHANGED <<disk, hl, editorVars, mapperVars, scriptVars, now, ticks, lastSnapshotTime,
                 waitingResolvers, lastRenderOutput, posts>>

ServerNext ==
  \/ Tick
  \/ PostSnapshot
  \/ RenderSnapshotDone
  \/ wait_for_feedback
  \/ WaitTimeout
  \/ check_feedback

InitServerOnly ==
  /\ disk = [n \in 1..MaxFiles |-> Missing]
  /\ InitCalls
  /\ InitScripts
  /\ InitServer
  /\ InitEditor

SpecServer == InitServerOnly /\ [][ServerNext]_vars

\* ------------------------------------- mcp-server: highlight_location

MainTex == <<"m", "a", "i", "n", ".", "t", "e", "x">>

\* args of a highlight_location call: file absent, line absent or 0, both given
HighlightArgs ==
  {[file |-> <<>>, line |-> 42], [file |-> MainTex, line |-> 0], [file |-> MainTex, line |-> 42]}

DigitChar(d) ==
  CASE d = 0 -> "0" [] d = 1 -> "1" [] d = 2 -> "2" [] d = 3 -> "3" [] d = 4 -> "4"
    [] d = 5 -> "5" [] d = 6 -> "6" [] d = 7 -> "7" [] d = 8 -> "8" [] d = 9 -> "9"

\* `${line}` for a natural number
RECURSIVE DecimalText(_)
DecimalText(n) ==
  IF n < 10 THEN <<DigitChar(n)>> ELSE Append(DecimalText(n \div 10), DigitChar(n % 10))

\* JSON.parse(JSON.stringify(x)) of a number: NaN and the infinities become null
JsonNumber(x) == IF IsFinite(x) THEN x ELSE Null

\* Where result.match(/JSON: ({.*})/) matches: the first such line, 0 for none
JsonMatch(out) ==
  IF \E i \in DOMAIN out : out[i][1] = "JSON:"
    THEN CHOOSE i \in DOMAIN out :
           /\ out[i][1] = "JSON:"
           /\ \A j \in DOMAIN out : out[j][1] = "JSON:" => i <= j
  ELSE 0

\* const coords = JSON.parse(jsonMatch[1])
JsonCoords(out) ==
  LET printed == out[JsonMatch(out)][2]
  IN [page |-> JsonNumber(printed.page),
      tldrawX |-> JsonNumber(printed.tldrawX),
      tldrawY |-> JsonNumber(printed.tldrawY)]

\* broadcastHighlight: the message sent to every open client
broadcastHighlight(tldrawX, tldrawY, page) ==
  [type |-> "highlight", x |-> tldrawX, y |-> tldrawY, page |-> page]

\* highlight_location without the check of file and line.
highlight_locationUnchecked ==
  /\ NoRun
  /\ hl.pc # "execSync"
  /\ \E args \in HighlightArgs, fileExists \in BOOLEAN :
       /\ hl' = [IdleHighlight EXCEPT
                   !.pc = "execSync", !.file = args.file, !.line = args.line]
       /\ rv' = IF ~fileExists
                  THEN [IdleReverse EXCEPT
                          !.args = <<args.file, DecimalText(args.line)>>,
                          !.pc = "exited", !.exit = 1,
                          !.stderr = <<<<"File not found:", args.file>>>>]
                ELSE [IdleReverse EXCEPT
                        !.args = <<args.file, DecimalText(args.line)>>,
                        !.pc = "oracle"]
  /\ revPageCache' = Null
  /\ pageCache' = Null
  /\ lk' = IdleLookup
  /\ UNCHANGED <<disk, editorVars, serverVars, mapperVars>>

\* highlight_location, up to execSync: the check of file and line, then
\* synctex-reverse.mjs is started in a new process with "${file}" ${line}
highlight_location ==
  /\ NoRun
  /\ hl.pc # "execSync"
  /\ \E args \in HighlightArgs, fileExists \in BOOLEAN :
       IF args.file = <<>> \/ args.line = 0
         THEN /\ hl' = [IdleHighlight EXCEPT
                          !.pc = "returned", !.file = args.file, !.line = args.line,
                          !.text = "Missing file or line parameter",
                          !.isError = TRUE]
              /\ rv' = IdleReverse
       ELSE /\ hl' = [IdleHighlight EXCEPT
                        !.pc = "execSync", !.file = args.file, !.line = args.line]
            /\ rv' = IF ~fileExists
                       THEN [IdleReverse EXCEPT
                               !.args = <<args.file, DecimalText(args.line)>>,
                               !.pc = "exited", !.exit = 1,
                               !.stderr = <<<<"File not found:", args.file>>>>]
                     ELSE [IdleReverse EXCEPT
                             !.args = <<args.file, DecimalText(args.line)>>,
                             !.pc = "oracle"]
  /\ revPageCache' = Null
  /\ pageCache' = Null
  /\ lk' = IdleLookup
  /\ UNCHANGED <<disk, editorVars, serverVars, mapperVars>>

\* highlight_location, after execSync: a script that exited with a status
\* other than 0 makes execSync throw; otherwise the 'JSON:' line is looked
\* for, its coordinates are broadcast and the result text is built
\* (coords.tldrawX.toFixed(0) is a TypeError when the coordinate is null,
\* caught by the same catch)
highlight_locationDone ==
  /\ hl.pc = "execSync"
  /\ rv.pc = "exited"
  /\ hl' = IF rv.exit # 0
             THEN [hl EXCEPT !.pc = "returned", !.text = "Synctex error", !.isError = TRUE]
           ELSE IF JsonMatch(rv.stdout) = 0
             THEN [hl EXCEPT !.pc = "returned",
                             !.text = "Could not find location in PDF",
                             !.isError = TRUE]
           ELSE IF JsonCoords(rv.stdout).tldrawX = Null
                   \/ JsonCoords(rv.stdout).tldrawY = Null
             THEN [hl EXCEPT !.pc = "returned", !.text = "Synctex error",
                             !.isError = TRUE,
                             !.sent = <<broadcastHighlight(JsonCoords(rv.stdout).tldrawX,
                                                           JsonCoords(rv.stdout).tldrawY,
                                                           JsonCoords(rv.stdout).page)>>]
           ELSE [hl EXCEPT !.pc = "returned", !.text = "Highlighted",
                           !.isError = FALSE,
                           !.sent = <<broadcastHighlight(JsonCoords(rv.stdout).tldrawX,
                                                         JsonCoords(rv.stdout).tldrawY,
                                                         JsonCoords(rv.stdout).page)>>]
  /\ UNCHANGED <<disk, editorVars, serverVars, mapperVars, scriptVars>>

\* The page files highlight_location is checked on.
HighlightDisks == [1..MaxFiles -> {Svg600x800, SvgDot, Missing}]

InitHighlight ==
  /\ disk \in HighlightDisks
  /\ InitCalls
  /\ InitScripts
  /\ InitServer
  /\ InitEditor

HighlightNext ==
  \/ highlight_location
  \/ ReverseOracle
  \/ ReverseGetPages
  \/ ReverseConvert
  \/ highlight_locationDone

SpecHighlight == InitHighlight /\ [][HighlightNext]_vars

\* ------------------------------- SvgDocument.tsx: messages, timers, the user

\* How many WebSocket messages are handled.
MaxMessages == 2

\* The time after which no more message arrives, in seconds.
MaxTime == 1

\* setTimeout(..., 3000), in seconds
MarkerSeconds == 3

NoMarker == <<"none", 0>>

\* ws.onmessage for a 'highlight' or a 'scroll' message: a highlight without
\* noMarker creates the marker shape under a new id and starts its timer
ReceiveMessage ==
  /\ Len(messages) < MaxMessages
  /\ clock <= MaxTime
  /\ \E type \in {"highlight", "scroll"}, noMarker \in BOOLEAN :
       IF type = "highlight" /\ ~noMarker
         THEN /\ shapes' = createShape(shapes, <<"marker", Len(messages) + 1>>, "geo")
              /\ timers' = timers \cup {[id |-> <<"marker", Len(messages) + 1>>,
                                         due |-> clock + MarkerSeconds]}
              /\ messages' = Append(messages,
                                    [type |-> type, noMarker |-> noMarker,
                                     marker |-> <<"marker", Len(messages) + 1>>])
       ELSE /\ messages' = Append(messages,
                                  [type |-> type, noMarker |-> noMarker,
                                   marker |-> NoMarker])
            /\ UNCHANGED <<shapes, timers>>
  /\ UNCHANGED <<disk, hl, serverVars, mapperVars, scriptVars, clock, change>>

\* The callback of a marker's timer: the marker is deleted if it still exists.
TimerFires ==
  /\ \E t \in timers :
       /\ t.due <= clock
       /\ shapes' = IF t.id \in DOMAIN shapes THEN deleteShape(shapes, t.id) ELSE shapes
       /\ timers' = timers \ {t}
  /\ UNCHANGED <<disk, hl, serverVars, mapperVars, scriptVars, clock, messages, change>>

\* A second passes; a callback that is due runs first.
TickEditor ==
  /\ \A t \in timers : t.due > clock
  /\ clock <= MaxTime \/ timers # {}
  /\ clock' = clock + 1
  /\ UNCHANGED <<disk, hl, serverVars, mapperVars, scriptVars, shapes, timers,
                 messages, change>>

\* The user draws a shape.
UserCreate ==
  /\ \E id \in UserShapeIds \ DOMAIN shapes :
       shapes' = createShape(shapes, id, "draw")
  /\ UNCHANGED <<disk, hl, serverVars, mapperVars, scriptVars, timers, clock,
                 messages, change>>

\* The indexes the user gives a shape.
UserIndexes == 0..MaxIndex

\* The user changes a shape: locks or unlocks it, moves it in the z-order.
UserChange ==
  /\ \E id \in DOMAIN shapes, isLocked \in BOOLEAN, index \in UserIndexes :
       /\ index = shapes[id].index \/ \A s \in DOMAIN shapes : shapes[s].index # index
       /\ [shapes[id] EXCEPT !.isLocked = isLocked, !.index = index] # shapes[id]
       /\ shapes' = updateShape(shapes, id,
                                [shapes[id] EXCEPT !.isLocked = isLocked, !.index = index])
       /\ change' = IF beforeChange(id, shapes[id],
                                     [shapes[id] EXCEPT !.isLocked = isLocked,
                                                        !.index = index])
                          = [shapes[id] EXCEPT !.isLocked = isLocked, !.index = index]
                       THEN "stored"
                     ELSE "replaced"
  /\ UNCHANGED <<disk, hl, serverVars, mapperVars, scriptVars, timers, clock,
                 messages>>

\* The user deletes a shape that is not a page.
UserDelete ==
  /\ \E id \in DOMAIN shapes \ shapeIdSet : shapes' = deleteShape(shapes, id)
  /\ UNCHANGED <<disk, hl, serverVars, mapperVars, scriptVars, timers, clock,
                 messages, change>>

EditorNext ==
  \/ ReceiveMessage
  \/ TimerFires
  \/ TickEditor
  \/ UserCreate
  \/ UserChange
  \/ UserDelete

InitEditorOnly ==
  /\ disk = [n \in 1..MaxFiles |-> Missing]
  /\ InitCalls
  /\ InitScripts
  /\ InitServer
  /\ InitEditor

SpecEditor == InitEditorOnly /\ [][EditorNext]_vars

\* A callback that is due runs, and time passes.
SpecEditorFair ==
  /\ InitEditorOnly
  /\ [][EditorNext]_vars
  /\ WF_vars(TimerFires)
  /\ WF_vars(TickEditor)

\* ------------------------------------------------------ mapper properties

Resolved == mPages # Null
Pages == mPages.items

\* y lies in the half-open band [top, bottom) of the page
InBand(page, y) == Ge(y, page.top) /\ Lt(y, page.bottom)

\* The lowest page number whose band holds y, 0 when no band does.
FirstBand(pages, y) ==
  LET holding == {i \in DOMAIN pages : InBand(pages[i], y)}
  IN IF holding = {} THEN 0
     ELSE CHOOSE i \in holding : \A j \in holding : i <= j

\* C1 (as claimed): in every resolved page list, whatever the page files
\* declare, top is strictly increasing in page number and
\* bottom[i] + PAGE_SPACING == top[i+1].
C1_BandsIncreaseWhateverMetadata ==
  Resolved =>
    \A i \in 1..(Len(Pages) - 1) :
      /\ Lt(Pages[i].top, Pages[i + 1].top)
      /\ NumEq(Add(Pages[i].bottom, Num(PAGE_SPACING)), Pages[i + 1].top)

\* The document-to-canvas-to-document round trip returned the original triple.
DocumentRoundTripExact ==
  /\ mCall.tldraw.err = "none"
  /\ mCall.back.err = "none"
  /\ mCall.back.page = mCall.page
  /\ NumEq(mCall.back.pdfX, mCall.pdfX)
  /\ NumEq(mCall.back.pdfY, mCall.pdfY)

\* C2 (as claimed): for every page in 1..N and every native point,
\* pdfToTldrawCoords then tldrawToPdfCoords returns the original page and
\* native coordinates.
C2_DocumentRoundTripAnyPoint ==
  (mCall.op = "documentRoundTrip" /\ mCall.page \in 1..Len(Pages))
    => DocumentRoundTripExact

\* C2 (amended): for every page in 1..N and every native point whose canvas
\* image lies in the half-open band of that page and of no earlier page, the
\* round trip returns the original page and native coordinates.
C2_DocumentRoundTripInBand ==
  (/\ mCall.op = "documentRoundTrip"
   /\ mCall.page \in 1..Len(Pages)
   /\ FirstBand(Pages, mCall.tldraw.tldrawY) = mCall.page)
    => DocumentRoundTripExact

\* C2 witness: a round trip from a page that is not the last one, with a
\* non-zero origin offset, landing in that page's band.
C2_Witness ==
  /\ mCall.op = "documentRoundTrip"
  /\ mCall.page \in 1..(Len(Pages) - 1)
  /\ FirstBand(Pages, mCall.tldraw.tldrawY) = mCall.page
  /\ Pages[mCall.page].viewBoxMinY # Num(0)
  /\ mCall.pdfY # Pages[mCall.page].viewBoxMinY
  /\ DocumentRoundTripExact

\* C3 (as claimed): for every canvas point with y strictly inside some page's
\* band, tldrawToPdfCoords then pdfToTldrawCoords reproduces (x, y).
C3_CanvasRoundTripInsideBand ==
  (/\ mCall.op = "canvasRoundTrip"
   /\ \E i \in DOMAIN Pages : Lt(Pages[i].top, mCall.y) /\ Lt(mCall.y, Pages[i].bottom))
    => /\ mCall.back.err = "none"
       /\ NumEq(mCall.back.tldrawX, mCall.x)
       /\ NumEq(mCall.back.tldrawY, mCall.y)

\* C4 (as claimed): findPageForY returns p for every page p with
\* p.top <= y < p.bottom, and y == p.bottom is not attributed to p.
C4_HalfOpenBandEveryPage ==
  mCall.op = "findPageForY" =>
    \A i \in DOMAIN Pages :
      /\ InBand(Pages[i], mCall.y) => mCall.out = Pages[i]
      /\ NumEq(mCall.y, Pages[i].bottom) => mCall.out # Pages[i]

\* C4 (amended): findPageForY returns the first page, in a forward scan, whose
\* half-open band [top, bottom) holds y, so y == p.top is attributed to p when
\* p is that first page; y == p.bottom is attributed to p only by the
\* fallback, when no band holds y and p is the last page.
C4_FirstHalfOpenBand ==
  mCall.op = "findPageForY" =>
    /\ FirstBand(Pages, mCall.y) # 0 => mCall.out = Pages[FirstBand(Pages, mCall.y)]
    /\ \A i \in DOMAIN Pages :
         /\ (NumEq(mCall.y, Pages[i].top) /\ FirstBand(Pages, mCall.y) = i)
              => mCall.out = Pages[i]
         /\ (NumEq(mCall.y, Pages[i].bottom) /\ mCall.out = Pages[i])
              => (i = Len(Pages) /\ FirstBand(Pages, mCall.y) = 0)

\* C4 witness: y on the top edge of a page that is neither the first nor the
\* last, attributed to that page.
C4_Witness ==
  /\ mCall.op = "findPageForY"
  /\ \E i \in 2..(Len(Pages) - 1) :
       /\ NumEq(mCall.y, Pages[i].top)
       /\ InBand(Pages[i], mCall.y)
       /\ mCall.out = Pages[i]

\* C5 (as claimed): for a non-empty list, a canvas y in an inter-page gap or
\* at or below the last page's bottom is converted without error and
\* attributed to the last page.
C5_GapOrBeyondGoesToLastPage ==
  (/\ mCall.op = "canvasRoundTrip"
   /\ Len(Pages) > 0
   /\ \/ Ge(mCall.y, Pages[Len(Pages)].bottom)
      \/ \E i \in 1..(Len(Pages) - 1) :
           Ge(mCall.y, Pages[i].bottom) /\ Lt(mCall.y, Pages[i + 1].top))
    => /\ mCall.coords.err = "none"
       /\ mCall.coords.page = Len(Pages)

\* C9 (as claimed): every page's scale is 800 / nativeWidth, and the native
\* point at the origin offset of a page maps to canvas (0, page.top).
C9_OriginOffsetMapsToBandOrigin ==
  /\ Resolved =>
       \A i \in DOMAIN Pages :
         Pages[i].scale = Div(Num(800), Pages[i].origWidth)
  /\ (/\ mCall.op = "documentRoundTrip"
      /\ mCall.page \in 1..Len(Pages)
      /\ mCall.pdfX = Pages[mCall.page].viewBoxMinX
      /\ mCall.pdfY = Pages[mCall.page].viewBoxMinY)
       => /\ mCall.tldraw.err = "none"
          /\ NumEq(mCall.tldraw.tldrawX, Num(0))
          /\ NumEq(mCall.tldraw.tldrawY, Pages[mCall.page].top)

\* The sum over pages 1..k of (nativeHeight * 800 / nativeWidth + 32).
RECURSIVE AdvanceSum(_, _)
AdvanceSum(pages, k) ==
  IF k = 0 THEN Num(0)
  ELSE Add(AdvanceSum(pages, k - 1),
           Add(Div(Mul(pages[k].origHeight, Num(800)), pages[k].origWidth), Num(32)))

\* The scenario of three pages of native sizes 600x800, 600x1000 and 400x800.
ScenarioDisk ==
  /\ disk[1] = Svg600x800
  /\ disk[2] = Svg600x1000
  /\ disk[3] = Svg400x800

\* C10: the first page's top is 0, every later page's top is the sum over the
\* earlier pages of (nativeHeight * 800 / nativeWidth + 32), and the three
\* page scenario gives tops 0, 800*(800/600)+32 and 2464.
C10_TopIsRunningTotal ==
  Resolved =>
    /\ \A i \in DOMAIN Pages : Pages[i].top = AdvanceSum(Pages, i - 1)
    /\ ScenarioDisk =>
         /\ Len(Pages) >= 3
         /\ Pages[1].top = Num(0)
         /\ Pages[2].top = Add(Mul(Num(800), Div(Num(800), Num(600))), Num(32))
         /\ Pages[3].top = Num(2464)

\* C10 witness: the three page scenario resolved.
C10_Witness ==
  /\ Resolved
  /\ ScenarioDisk
  /\ Len(Pages) >= 3
  /\ Pages[3].top = Num(2464)

\* C11: the resolved list is exactly pages 1..k, k+1 being the lowest missing
\* page number; the entry at index i (from 0) has pageNum i+1, a page file
\* after a gap is never included, and with page 1 missing the result is the
\* empty list.
C11_DiscoveryStopsAtFirstGap ==
  Resolved =>
    /\ Len(Pages) = LowestMissing(disk) - 1
    /\ \A i \in DOMAIN Pages : Pages[i].pageNum = i
    /\ ~existsSync(disk, 1) => Pages = <<>>

\* A page file exists after a gap and discovery has stopped before the gap.
C11_Witness ==
  /\ Resolved
  /\ existsSync(disk, 1) /\ ~existsSync(disk, 2) /\ existsSync(disk, 3)
  /\ Len(Pages) = 1

\* C12: once the page list is cached it never changes again in the process,
\* whatever happens to the page files and whichever operation runs
\* (findPageForY, tldrawToPdfCoords, pdfToTldrawCoords, synctexLookup), and
\* every later getPageDimensions call returns that same list.
C12_GeometryComputedOnce ==
  [][Resolved =>
       /\ mPages' = mPages
       /\ mCall'.op = "getPageDimensions" => mCall'.pages = Pages]_vars

\* A later call has returned the cached list although the page files have
\* changed since the list was computed.
C12_Witness ==
  /\ Resolved
  /\ mCall.op = "getPageDimensions"
  /\ mCall.pages = Pages
  /\ Pages # ScanPages(disk, 1, Num(0), <<>>)

PositiveFinite(x) == IsFinite(x) /\ Lt(Num(0), x)

\* C14 (as claimed): whatever a page file declares, the resolved origWidth,
\* origHeight and scale are positive finite numbers, and a page file that
\* declares nothing gets the default 600 x 800 with origin offset (0, 0).
C14_MetadataPositiveFinite ==
  Resolved =>
    \A i \in DOMAIN Pages :
      /\ PositiveFinite(Pages[i].origWidth)
      /\ PositiveFinite(Pages[i].origHeight)
      /\ PositiveFinite(Pages[i].scale)
      /\ disk[i] = SvgBare =>
           /\ NumEq(Pages[i].origWidth, Num(600))
           /\ NumEq(Pages[i].origHeight, Num(800))
           /\ NumEq(Pages[i].viewBoxMinX, Num(0))
           /\ NumEq(Pages[i].viewBoxMinY, Num(0))

\* The browser's page i and the scripts' page i are laid out alike.
SameLayout(browser, script) ==
  /\ NumEq(browser.bounds.y, script.top)
  /\ NumEq(browser.bounds.h, script.scaledHeight)
  /\ NumEq(browser.bounds.w, Num(TARGET_WIDTH))
  /\ NumEq(script.scaledWidth, Num(TARGET_WIDTH))
  /\ NumEq(browser.bounds.x, Num(0))

\* C19 (as claimed): for the same page files the browser's layout and the
\* layout getPageDimensions computes agree: page i has the same top, the
\* same scaled height and width 800 in both, and after centring every page's
\* canvas x origin is 0.
C19_BrowserLayoutAgrees ==
  (Resolved /\ mCall.op = "loadSvgDocument") =>
    /\ Len(mCall.pages) = Len(Pages)
    /\ \A i \in DOMAIN Pages : SameLayout(mCall.pages[i], Pages[i])

\* ------------------------------------------------------ script properties

\* No page file is found: page-01.svg is missing.
NoPagesOnDisk == ~existsSync(disk, 1)

\* C6 (as claimed): when no page is found the invocation ends with an error
\* and reaches neither a coordinate conversion nor an oracle call.
C6_ZeroPagesStopBeforeConversion ==
  NoPagesOnDisk =>
    /\ Len(lk.calls) = 0
    /\ Len(rv.calls) = 0
    /\ lk.pc # "convert"
    /\ rv.pc # "convert"
    /\ (lk.pc = "exited" /\ pageCache # Null) => lk.exit = 1
    /\ (rv.pc = "exited" /\ revPageCache # Null) => rv.exit = 1

\* The last line on stderr is the unknown-page error naming pageNum.
UnknownPageReported(proc, pageNum) ==
  /\ proc.exit = 1
  /\ Len(proc.stderr) > 0
  /\ proc.stderr[Len(proc.stderr)] = <<"Error", <<"Page", pageNum, "not found">>>>

\* C7 (as claimed): a page number that is 0 or greater than the number of
\* resolved pages is rejected with an unknown-page error naming the page, by
\* pdfToTldrawCoords in the reverse script and on the --page path of the
\* lookup script.
C7_UnknownPageNamed ==
  /\ (/\ rv.pc = "exited"
      /\ revPageCache # Null
      /\ PageAt(revPageCache.items, rv.result[KeyPage]) = Undefined)
       => UnknownPageReported(rv, rv.result[KeyPage])
  /\ (/\ lk.pc = "exited"
      /\ pageCache # Null
      /\ ArgIs(lk.args, 1, PageFlag)
      /\ PageAt(pageCache.items, ArgInt(lk.args, 2)) = Undefined)
       => UnknownPageReported(lk, ArgInt(lk.args, 2))

\* The run could not be executed: it failed without writing anything.
ProcessFailed(run) == run.status = "failed" /\ run.stdout = <<>>

\* The run succeeded and its output has no line the parser recognises.
NoMapping(run) ==
  run.status = "ok" /\ \A i \in DOMAIN run.stdout : ~LineMatches(run.stdout[i])

\* The lookup script reported that the oracle has no mapping.
NotFoundReported ==
  /\ lk.exit = 0
  /\ Len(lk.stdout) > 0
  /\ lk.stdout[Len(lk.stdout)] = <<"No source location found">>

\* C8 (as claimed): an oracle response without recognised keys is reported
\* as not found, a failure to run the oracle as a process error, and the
\* caller of the lookup script can tell the two apart.
C8_NotFoundDistinctFromProcessError ==
  (lk.pc = "exited" /\ ~ArgIs(lk.args, 1, FromSnapshotFlag) /\ Len(lk.calls) = 1)
    => /\ NoMapping(lk.calls[1].run) =>
            (lk.result = <<>> /\ NotFoundReported)
       /\ ProcessFailed(lk.calls[1].run) =>
            (Has(lk.result, KeyError) /\ ~NotFoundReported)

\* The lookup script runs in --from-snapshot mode.
FromSnapshot == ArgIs(lk.args, 1, FromSnapshotFlag)

\* The oracle call was made for the canvas point of annotation j.
CallIsForAnnotation(j) ==
  LET coords == tldrawToPdfCoords(pageCache.items, lk.anns[j].x, lk.anns[j].y)
  IN /\ coords.err = "none"
     /\ lk.calls[j].page = coords.page
     /\ lk.calls[j].pdfX = coords.pdfX
     /\ lk.calls[j].pdfY = coords.pdfY

JsonLines(out) == {i \in DOMAIN out : out[i][1] = "JSON:"}

\* The output has exactly one 'JSON:' line and it is its last line.
OneJsonLineLast(out) == JsonLines(out) = {Len(out)} /\ Len(out) > 0

\* The oracle gave the lookup script a mapping: some run's result has a
\* source file and a line.
LookupMapped == \E j \in DOMAIN lk.calls : HasSource(synctexLookup(lk.calls[j].run))

\* The oracle gave the reverse script a mapping: a page and an x.
ReverseMapped ==
  /\ Len(rv.calls) = 1
  /\ ~synctexView(rv.calls[1].run).threw
  /\ TruthyNumber(synctexView(rv.calls[1].run).value, KeyPage)
  /\ Has(synctexView(rv.calls[1].run).value, KeyX)

\* C15 (as claimed): an invocation of either script that obtains a mapping
\* from the oracle prints exactly one 'JSON:' line, as its last line, and an
\* invocation that obtains none prints no 'JSON:' line.
C15_JsonLineIffMapping ==
  /\ lk.pc = "exited" =>
       IF LookupMapped THEN OneJsonLineLast(lk.stdout) ELSE JsonLines(lk.stdout) = {}
  /\ rv.pc = "exited" =>
       IF ReverseMapped THEN OneJsonLineLast(rv.stdout) ELSE JsonLines(rv.stdout) = {}

\* The reverse script's mapping can be converted: it has a y as well and its
\* page is one of the resolved pages.
ReverseConverted ==
  /\ ReverseMapped
  /\ Has(rv.result, KeyY)
  /\ revPageCache # Null
  /\ PageAt(revPageCache.items, rv.result[KeyPage]) # Undefined

\* C15 (amended): a single coordinate lookup prints exactly one 'JSON:' line,
\* as its last line, when the oracle gave a source file and a line, and none
\* otherwise; a --from-snapshot run prints none; the reverse script prints
\* exactly one, as its last line, when the oracle gave page, x and y and the
\* page is a resolved page, and none otherwise.
C15_JsonLineIffReported ==
  /\ (lk.pc = "exited" /\ ~FromSnapshot) =>
       IF LookupMapped THEN OneJsonLineLast(lk.stdout) ELSE JsonLines(lk.stdout) = {}
  /\ (lk.pc = "exited" /\ FromSnapshot) => JsonLines(lk.stdout) = {}
  /\ rv.pc = "exited" =>
       IF ReverseConverted THEN OneJsonLineLast(rv.stdout) ELSE JsonLines(rv.stdout) = {}

\* A single coordinate lookup has ended with a mapping and its 'JSON:' line.
C15_Witness ==
  /\ lk.pc = "exited" /\ ~FromSnapshot
  /\ LookupMapped
  /\ OneJsonLineLast(lk.stdout)

\* The lookup script was given --page N with N one of the resolved pages.
ExplicitPage ==
  /\ ArgIs(lk.args, 1, PageFlag)
  /\ pageCache # Null
  /\ PageAt(pageCache.items, ArgInt(lk.args, 2)) # Undefined

\* C16 (as claimed): with --page N x y, N a resolved page, the oracle is
\* asked about page N whatever the page-local y is; with global canvas
\* coordinates it is asked about the page findPageForY detects from y.
C16_ExplicitPageQueried ==
  (~FromSnapshot /\ Len(lk.calls) = 1) =>
    IF ExplicitPage THEN Num(lk.calls[1].page) = ArgInt(lk.args, 2)
    ELSE lk.calls[1].page = findPageForY(pageCache.items, ArgFloat(lk.args, 2)).pageNum

\* ------------------------------------------------------ server properties

\* The wait_for_feedback calls that have returned.
ReturnedWaits ==
  {c \in DOMAIN calls : calls[c].name = "wait_for_feedback" /\ calls[c].state = "returned"}

\* The call returned the timeout error, and not before its timeout (300 s
\* when none is given) had passed.
TimedOut(c) ==
  /\ calls[c].isError
  /\ calls[c].text = "Error: Timeout waiting for feedback"
  /\ calls[c].wokenBy = 0
  /\ now >= calls[c].time + (IF calls[c].arg.given /\ calls[c].arg.v # 0
                               THEN calls[c].arg.v * 1000 ELSE 300000)

\* The call returned the feedback of a snapshot that was stored and whose
\* render has finished.
ReturnedFeedback(c) ==
  /\ ~calls[c].isError
  /\ calls[c].text = "New feedback received!"
  /\ calls[c].wokenBy \in DOMAIN posts
  /\ posts[calls[c].wokenBy].stored
  /\ posts[calls[c].wokenBy].doneAt > 0

Checks == {c \in DOMAIN calls : calls[c].name = "check_feedback"}
ReportedNew(c) == calls[c].text = "New feedback available!"

\* When the last check before c that reported new feedback ran (0: none has).
PreviousNew(c) ==
  LET earlier == {d \in Checks : d < c /\ ReportedNew(d)}
  IN IF earlier = {} THEN 0
     ELSE calls[CHOOSE d \in earlier : \A e \in earlier : e <= d].at

\* The snapshots received (stored) after the last check before c that
\* reported new feedback, or since the server started.
ReceivedSince(c) ==
  {p \in DOMAIN posts :
     posts[p].stored /\ posts[p].at > PreviousNew(c) /\ posts[p].at < calls[c].at}

\* C18 (as claimed): check_feedback returns at once; it reports new feedback
\* exactly when a snapshot has been received since the previous check that
\* reported new feedback (or since the server started), and answers 'No new
\* feedback since last check.' otherwise.
C18_NewExactlyWhenSnapshotSince ==
  \A c \in Checks :
    /\ calls[c].state = "returned"
    /\ ReportedNew(c) <=> ReceivedSince(c) # {}
    /\ ~ReportedNew(c) => calls[c].text = "No new feedback since last check."

\* The wait_for_feedback calls that have not returned.
PendingWaits ==
  {c \in DOMAIN calls : calls[c].name = "wait_for_feedback" /\ calls[c].state = "pending"}

\* post i finishes its render in this step
FinishesRender(i) == posts[i].phase = "rendering" /\ posts'[i].phase = "responded"

\* C20 (as claimed): the step in which a snapshot POST finishes its render returns every
\* wait_for_feedback call pending at that moment, with one resolve each, and
\* leaves waitingResolvers empty; no resolver ever runs twice, and a call
\* woken by a snapshot began before that snapshot's render finished.
C20_RenderWakesPendingOnce ==
  /\ [](\A c \in DOMAIN calls :
          /\ calls[c].resolves <= 1
          /\ calls[c].wokenBy # 0 => calls[c].at < posts[calls[c].wokenBy].doneAt)
  /\ [][\A i \in DOMAIN posts :
          FinishesRender(i) =>
            /\ waitingResolvers' = <<>>
            /\ \A c \in PendingWaits :
                 /\ calls'[c].state = "returned"
                 /\ calls'[c].wokenBy = i
                 /\ calls'[c].resolves = 1]_vars

\* post i is answered with 500 on arrival in this step
RefusesSnapshot ==
  /\ Len(posts') = Len(posts) + 1
  /\ posts'[Len(posts')].status = 500

\* The viewer of post i, whose render finishes in this step, has failed.
ViewerFailed(i) == lastRenderOutput' = RenderOutput(i, FALSE, TRUE)

\* C21 (as claimed): a post whose viewer failed is still answered with 200,
\* lastRenderOutput then starts with 'Render error', lastSnapshotTime has
\* been advanced to the post's time or later and the waits pending at that
\* moment are returned; only a post whose snapshot file could not be written
\* is answered with 500, and the step that answers it runs no resolver.
C21_ViewerFailureStillNotifies ==
  /\ [](\A p \in DOMAIN posts : posts[p].status = 500 => ~posts[p].stored)
  /\ [][/\ RefusesSnapshot =>
               /\ calls' = calls
               /\ waitingResolvers' = waitingResolvers
               /\ lastSnapshotTime' = lastSnapshotTime
          /\ \A i \in DOMAIN posts :
               (FinishesRender(i) /\ ViewerFailed(i)) =>
                 /\ posts'[i].status = 200
                 /\ lastRenderOutput'[1] = "Render error"
                 /\ lastSnapshotTime' >= posts[i].time
                 /\ waitingResolvers' = <<>>
                 /\ \A c \in PendingWaits : calls'[c].state = "returned"]_vars

\* ------------------------------------------- highlight_location properties

\* The highlight_location call has returned.
HighlightReturned == hl.pc = "returned"

\* The reverse lookup of the call ran and printed a 'JSON:' line.
ProducedJson == \E i \in DOMAIN rv.stdout : rv.stdout[i][1] = "JSON:"

\* C22: a highlight_location call that has returned has broadcast a
\* highlight message exactly when its reverse lookup printed a 'JSON:' line,
\* and then one message; when file or line is missing, when the lookup
\* printed no 'JSON:' line or when the lookup process exited with a failure,
\* the result is an error and nothing has been broadcast.
C22_BroadcastIffJsonLine ==
  HighlightReturned =>
    /\ hl.sent # <<>> <=> ProducedJson
    /\ Len(hl.sent) <= 1
    /\ \A i \in DOMAIN hl.sent : hl.sent[i].type = "highlight"
    /\ (hl.file = <<>> \/ hl.line = 0 \/ ~ProducedJson \/ rv.exit # 0) =>
         /\ hl.isError
         /\ hl.sent = <<>>

\* A call has returned after broadcasting the coordinates of its lookup.
C22_Witness ==
  /\ HighlightReturned
  /\ ProducedJson
  /\ ~hl.isError
  /\ Len(hl.sent) = 1

\* ------------------------------------------------------- editor properties

\* The ids the markers are created under.
MarkerIds == {<<"marker", n>> : n \in 1..MaxMessages}

\* The message handled in this step.
Handles(m) == Len(messages') = Len(messages) + 1 /\ messages'[Len(messages')] = m

PageShapes == shapeIdSet \cap DOMAIN shapes

\* C24: in every state after setupSvgEditor every page shape is locked; in
\* every such state a change that would unlock a page shape stores the
\* previous record with isLocked true, and a change of a shape that is not a
\* page stores the changed record as it is.
C24_PagesStayLocked ==
  /\ \A p \in PageShapes : shapes[p].isLocked
  /\ \A id \in DOMAIN shapes, isLocked \in BOOLEAN, index \in UserIndexes :
       /\ (id \in shapeIdSet /\ ~isLocked) =>
            updateShape(shapes, id,
                        [shapes[id] EXCEPT !.isLocked = isLocked, !.index = index])[id]
              = [shapes[id] EXCEPT !.isLocked = TRUE]
       /\ id \notin shapeIdSet =>
            updateShape(shapes, id,
                        [shapes[id] EXCEPT !.isLocked = isLocked, !.index = index])[id]
              = [shapes[id] EXCEPT !.isLocked = isLocked, !.index = index]

\* A change that would have unlocked a page shape has been replaced, and the
\* user has locked a shape of their own.
C24_Witness ==
  /\ change = "replaced"
  /\ \A p \in PageShapes : shapes[p].isLocked
  /\ \E s \in DOMAIN shapes \ shapeIdSet : shapes[s].isLocked

\* The page shapes are below every other shape.
PagesAtBottom(store) ==
  \A p \in shapeIdSet \cap DOMAIN store, s \in DOMAIN store \ shapeIdSet :
    store[p].index < store[s].index

\* C25: in every state reached by handling shape creations and changes the
\* page shapes occupy the lowest positions of the z-order, and
\* makeSureShapesAreAtBottom then leaves the store as it is.
C25_PagesAtBottom ==
  /\ PagesAtBottom(shapes)
  /\ SubSeq(getSortedChildIdsForParent(shapes), 1, Cardinality(PageShapes))
       = sortByIndex(shapes, PageShapes)
  /\ PagesAtBottom(shapes) => makeSureShapesAreAtBottom(shapes) = shapes

\* The user has sent a shape to index 0, below where the pages were created,
\* and the pages have been moved below it.
C25_Witness ==
  /\ \E s \in DOMAIN shapes \ shapeIdSet : shapes[s].index = 0
  /\ \A p \in PageShapes : shapes[p].index < 0
  /\ PageShapes = shapeIdSet

====
